---- MODULE Spec2Model ----
(***************************************************************************)
(* FontGen: template grid layout, character extraction and character       *)
(* property resolution, as implemented by the command line generator       *)
(* (cli/fontgen.py, class FontGeneratorPotrace) and by the web generator   *)
(* (web_app/core/font_generator.py, class FontGenerator).                  *)
(*                                                                         *)
(* Characters are code points (65 is 'A').  Strings that the code builds   *)
(* (file names) are sequences of code points.  Scale factors are kept in   *)
(* tenths (4.0 is 40) so that they stay integers.  A Python dict is a      *)
(* function whose DOMAIN is the set of its keys; an ordered dict (the      *)
(* character_sets object of config.json) is a sequence of [name, data].    *)
(***************************************************************************)
EXTENDS Integers, Sequences, FiniteSets, TLC

(***************************************************************************)
(* Bounds of the explored inputs.                                          *)
(***************************************************************************)
MaxCols == 3
MaxCell == 2
MaxMargin == 1
MaxSpacing == 1
MaxChars == 3
MaxShrink == 1
MaxZoom == 2
MaxSetLen == 2
MaxResolutions == 2

(***************************************************************************)
(* Program constants.                                                      *)
(***************************************************************************)
CliHeader == 50
WebCols == 13
WebPngScale == 4

VARIABLES
    gen,                  \* which program runs: "cli" or "web"
    config,               \* the parsed config.json
    character_overrides,  \* FontGeneratorPotrace.character_overrides
    pc,                   \* "start" before the constructor ran, then "ready"
    characters,           \* FontGeneratorPotrace.characters
    char_properties,      \* char_properties of either generator
    template,             \* the SVG template file written last, or NoFile
    png,                  \* the PNG written by svg_to_png, or NoFile
    image,                \* the image the last extraction opened, or NoFile
    extracted,            \* crops of the last extraction, in loop order
    char_dir,             \* temp_files/<font>_characters: file name -> crop box
    result,               \* outcome of the last operation
    rasterizer,           \* whether "import cairosvg" succeeds on this machine
    resolutions,          \* how many times the properties were resolved
    identifier,           \* the string handed to CLIWrapper._char_to_filename
    filename,             \* the file name it returned
    decoded,              \* what CLIWrapper._filename_to_char made of that name
    character_map,        \* generate_preview: [char_name, character] of every SVG file
    glyphs,               \* font script: [char_name, character] of every glyph created
    config_file,          \* config.json as it is on disk
    step,                 \* the stage generate_font_with_potrace is at, or "idle"
    stages,               \* the stages the running call has started, in order
    waiting,              \* the external tool the call waits for, or NoTool
    ttf,                  \* whether <font_name>.ttf exists
    cwd,                  \* the working directory of the web process
    wrapper_config        \* CLIWrapper.config

vars == <<gen, config, character_overrides, pc, characters, char_properties,
          template, png, image, extracted, char_dir, result,
          rasterizer, resolutions, identifier, filename, decoded, character_map, glyphs,
          config_file, step, stages, waiting, ttf, cwd, wrapper_config>>

\* the state of a running generate_font_with_potrace
pipelineVars == <<step, stages, waiting, ttf>>

\* the state of CLIWrapper and of the process it runs in
cliWrapperVars == <<cwd, wrapper_config>>

\* the directory the server is started in, and self.cli_dir
ServerDir == "web_app"

CliDir == "cli"

NoTool == [tool |-> "none"]

\* the state of the CLIWrapper file name conversion
wrapperVars == <<identifier, filename, decoded>>

\* the state of the consumers of the crops' file names
consumerVars == <<character_map, glyphs>>

NoFile == [kind |-> "none"]

(***************************************************************************)
(* Python helpers.                                                         *)
(***************************************************************************)
Has(d, k) == k \in DOMAIN d

Get(d, k, default) == IF k \in DOMAIN d THEN d[k] ELSE default

EmptyDict == [k \in {} |-> 0]

\* d.setdefault(key, val): the first value stored for a key is kept
PutIfAbsent(d, key, val) ==
    [k \in DOMAIN d \cup {key} |-> IF k \in DOMAIN d THEN d[k] ELSE val]

\* d[key] = val
Put(d, key, val) ==
    [k \in DOMAIN d \cup {key} |-> IF k = key THEN val ELSE d[k]]

\* d = patch: the record is replaced by the patch
Replace(d, patch) == patch

\* dict.update(patch)
Update(d, patch) ==
    [k \in DOMAIN d \cup DOMAIN patch |-> IF k \in DOMAIN patch THEN patch[k] ELSE d[k]]

\* a % b of Python: the remainder has the sign of the divisor
PyMod(a, b) == a - b * (a \div b)

RECURSIVE Concat(_)
Concat(ss) == IF ss = <<>> THEN <<>> ELSE Head(ss) \o Concat(Tail(ss))

(***************************************************************************)
(* Configuration access.                                                   *)
(***************************************************************************)
\* config['font_generation']['character_sets'] (cli/fontgen.py:37)
CliCharacterSets(cfg) == cfg.font_generation.character_sets

\* config.get('character_sets', {}), falling back to the nested structure
WebCharacterSets(cfg) ==
    LET top == Get(cfg, "character_sets", <<>>)
    IN  IF top = <<>> /\ Has(cfg, "font_generation")
        THEN Get(cfg.font_generation, "character_sets", <<>>)
        ELSE top

\* FontGenerator.get_all_characters
get_all_characters(cfg) ==
    LET sets == WebCharacterSets(cfg)
    IN  Concat([s \in 1..Len(sets) |-> sets[s].data.characters])

(***************************************************************************)
(* Character property resolution.                                          *)
(***************************************************************************)
\* the (set, character) pairs in the order the loops visit them
RECURSIVE LoopOrder(_)
LoopOrder(sets) ==
    IF sets = <<>> THEN <<>>
    ELSE LET s == Head(sets)
         IN  [j \in 1..Len(s.data.characters) |->
                 [name |-> s.name, data |-> s.data, char |-> s.data.characters[j]]]
             \o LoopOrder(Tail(sets))

\* body of the inner loop of FontGeneratorPotrace.__init__: the record of one character
CliProperties(set_name, set_data, char, overrides) ==
    LET individual_scaling == Get(set_data, "individual_scaling", EmptyDict)
        scale_factor == Get(individual_scaling, char, set_data.scale_factor)
        individual_positioning == Get(set_data, "individual_positioning", EmptyDict)
        baseline_offset == Get(individual_positioning, char, set_data.baseline_offset)
        properties == [scale_factor |-> scale_factor,
                       baseline_offset |-> baseline_offset,
                       set |-> set_name]
    IN  IF char \in DOMAIN overrides
        THEN Update(properties, overrides[char])
        ELSE properties

\* body of the inner loop of FontGenerator._build_char_properties
WebProperties(set_name, set_data, char) ==
    [scale_factor |-> set_data.scale_factor,
     baseline_offset |-> set_data.baseline_offset]

RECURSIVE CliBuild(_, _, _)
CliBuild(order, k, overrides) ==
    IF k = 0 THEN EmptyDict
    ELSE Put(CliBuild(order, k - 1, overrides), order[k].char,
             CliProperties(order[k].name, order[k].data, order[k].char, overrides))

RECURSIVE WebBuild(_, _)
WebBuild(order, k) ==
    IF k = 0 THEN EmptyDict
    ELSE Put(WebBuild(order, k - 1), order[k].char,
             WebProperties(order[k].name, order[k].data, order[k].char))

\* FontGenerator._build_char_properties
build_char_properties(cfg) ==
    LET order == LoopOrder(WebCharacterSets(cfg))
    IN  WebBuild(order, Len(order))

(***************************************************************************)
(* Constructors.                                                           *)
(***************************************************************************)
\* RaisesKeyError with the defaults looked up once per set, before its loop
RaisesKeyErrorPerSet(sets) ==
    \E s \in 1..Len(sets) :
        ~({"scale_factor", "baseline_offset"} \subseteq DOMAIN sets[s].data)

\* set_data['scale_factor'] and set_data['baseline_offset'] (props[...] in the
\* web generator) are evaluated inside the loop over the set's characters, so
\* a missing key raises KeyError when the set lists at least one character
RaisesKeyError(sets) ==
    \E s \in 1..Len(sets) :
        /\ Len(sets[s].data.characters) > 0
        /\ ~({"scale_factor", "baseline_offset"} \subseteq DOMAIN sets[s].data)

\* InputsAfterResolve with properties bound to set_data itself, so that
\* update() writes the patch of every overridden character into the set
InputsAfterAliasedResolve(cfg, overrides) ==
    IF ~Has(cfg, "font_generation") \/ ~Has(cfg.font_generation, "template_settings")
    THEN [config |-> cfg, character_overrides |-> overrides]
    ELSE
    LET patched(data) ==
            LET hit == {j \in 1..Len(data.characters) : data.characters[j] \in DOMAIN overrides}
            IN  IF hit = {} THEN data
                ELSE Update(data, overrides[data.characters[CHOOSE j \in hit : \A i \in hit : i <= j]])
        sets == cfg.font_generation.character_sets
    IN  [config |-> [cfg EXCEPT !.font_generation.character_sets =
                         [s \in 1..Len(sets) |->
                             [name |-> sets[s].name, data |-> patched(sets[s].data)]]],
         character_overrides |-> overrides]

\* what resolution leaves in its inputs: the loops only read set_data and
\* character_overrides; properties is a new dict for every character and
\* update() writes into that dict alone
InputsAfterResolve(cfg, overrides) == [config |-> cfg, character_overrides |-> overrides]

\* the body of FontGeneratorPotrace.__init__: a KeyError ends the program
\* before the object exists
CliConstruct ==
    /\ IF RaisesKeyError(CliCharacterSets(config))
       THEN /\ pc' = "failed"
            /\ result' = "raised"
            /\ UNCHANGED <<config, character_overrides, characters, char_properties>>
       ELSE /\ LET order == LoopOrder(CliCharacterSets(config))
               IN  /\ characters' = [k \in 1..Len(order) |-> order[k].char]
                   /\ char_properties' = CliBuild(order, Len(order), character_overrides)
            /\ config' = InputsAfterResolve(config, character_overrides).config
            /\ character_overrides'
                   = InputsAfterResolve(config, character_overrides).character_overrides
            /\ pc' = "ready"
            /\ result' = "ok"
    /\ UNCHANGED <<config_file, pipelineVars, cliWrapperVars>>
    /\ UNCHANGED <<rasterizer, wrapperVars, consumerVars>>
    /\ UNCHANGED <<gen, template, png, image, extracted, char_dir>>

\* self.char_properties = self._build_char_properties()
WebConstruct ==
    /\ IF RaisesKeyError(WebCharacterSets(config))
       THEN /\ pc' = "failed"
            /\ result' = "raised"
            /\ UNCHANGED <<config, char_properties>>
       ELSE /\ char_properties' = build_char_properties(config)
            /\ config' = InputsAfterResolve(config, character_overrides).config
            /\ pc' = "ready"
            /\ result' = "ok"
    /\ UNCHANGED <<config_file, pipelineVars, cliWrapperVars>>
    /\ UNCHANGED <<rasterizer, wrapperVars, consumerVars>>
    /\ UNCHANGED <<gen, character_overrides, characters, template, png, image,
                   extracted, char_dir>>

\* FontGeneratorPotrace.__init__
CliInit ==
    /\ gen = "cli"
    /\ pc = "start"
    /\ CliConstruct
    /\ resolutions' = 1

\* FontGenerator.__init__
WebInit ==
    /\ gen = "web"
    /\ pc = "start"
    /\ WebConstruct
    /\ resolutions' = 1

\* the command line program is run again: main() constructs the generator
\* anew from the same config.json and character_overrides.json
CliInitAgain ==
    /\ gen = "cli"
    /\ pc = "ready"
    /\ resolutions < MaxResolutions
    /\ CliConstruct
    /\ resolutions' = resolutions + 1

\* the properties are resolved again on the same object, as update_config
\* and generate_template do
WebInitAgain ==
    /\ gen = "web"
    /\ pc = "ready"
    /\ resolutions < MaxResolutions
    /\ WebConstruct
    /\ resolutions' = resolutions + 1

(***************************************************************************)
(* Inputs of the property resolver: character sets and overrides.          *)
(***************************************************************************)
Chars == {65, 66}

SetNames == {"uppercase", "lowercase"}

\* scale_factor and baseline_offset of the sets of the default configuration;
\* an individual entry scales by 2.0 and sits at 100, an override patch scales
\* by 1.5 and sits at 90, so that every level of the precedence is told apart
DefaultScale(name) == IF name = "uppercase" THEN 40 ELSE 32

DefaultBaseline(name) == IF name = "uppercase" THEN 150 ELSE 120

CharSeqs == UNION {[1..n -> Chars] : n \in 1..MaxSetLen}

IndividualScalings == {[c \in D |-> 20] : D \in {{}} \cup {{c} : c \in Chars}}

IndividualPositionings == {[c \in D |-> 100] : D \in {{}, {65}}}

SetDatas(name) ==
    LET base == {[characters |-> cs,
                  scale_factor |-> DefaultScale(name),
                  baseline_offset |-> DefaultBaseline(name)] : cs \in CharSeqs}
        withScaling == base \cup
            {b @@ [individual_scaling |-> m] : b \in base, m \in IndividualScalings \ {EmptyDict}}
    IN  withScaling \cup
            {b @@ [individual_positioning |-> m] : b \in withScaling,
                                                   m \in IndividualPositionings \ {EmptyDict}}

NamedSets(name) == {[name |-> name, data |-> d] : d \in SetDatas(name)}

CharacterSetConfigs ==
    UNION {{<<a>> : a \in NamedSets(n)} : n \in SetNames}
    \cup UNION {{<<a, b>> : a \in NamedSets(n), b \in NamedSets(m)} :
                    <<n, m>> \in {p \in SetNames \X SetNames : p[1] # p[2]}}

Patches == {[scale_factor |-> 15],
            [baseline_offset |-> 90],
            [scale_factor |-> 15, baseline_offset |-> 90]}

Overrides == UNION {[D -> Patches] : D \in SUBSET Chars}

DefaultTemplateSettings == [template_size |-> 100, grid_cols |-> 13, margin |-> 20]

DefaultTemplateGeneration == [box_size |-> 80, box_spacing |-> 10, margin |-> 20]

\* config.json as the CLI reads it
CliConfig(sets, ts) ==
    [font_generation |-> [template_settings |-> ts, character_sets |-> sets]]

\* the configuration of the web generator: character sets at the top level
\* (its default configuration) or nested under font_generation (config.json)
WebConfig(sets, tg, nested) ==
    IF nested
    THEN [font_generation |-> [character_sets |-> sets], template_generation |-> tg]
    ELSE [character_sets |-> sets, template_generation |-> tg]

InitRest ==
    /\ pc = "start"
    /\ characters = <<>>
    /\ char_properties = EmptyDict
    /\ template = NoFile
    /\ png = NoFile
    /\ image = NoFile
    /\ extracted = <<>>
    /\ char_dir = EmptyDict
    /\ result = "none"
    /\ resolutions = 0
    /\ identifier = <<>>
    /\ filename = <<>>
    /\ decoded = <<>>
    /\ character_map = {}
    /\ glyphs = {}
    /\ config_file = config
    /\ step = "idle"
    /\ stages = <<>>
    /\ waiting = NoTool
    /\ ttf = FALSE
    /\ cwd = ServerDir
    /\ wrapper_config = EmptyDict

InitProps ==
    /\ gen \in {"cli", "web"}
    /\ \E sets \in CharacterSetConfigs :
          \/ /\ gen = "cli"
             /\ config = CliConfig(sets, DefaultTemplateSettings)
             /\ character_overrides \in Overrides
          \/ /\ gen = "web"
             /\ \E nested \in BOOLEAN :
                   config = WebConfig(sets, DefaultTemplateGeneration, nested)
             /\ character_overrides = EmptyDict
    /\ rasterizer = TRUE
    /\ InitRest

NextProps == CliInit \/ WebInit \/ CliInitAgain \/ WebInitAgain

SpecProps == InitProps /\ [][NextProps]_vars

(***************************************************************************)
(* Inputs of the property resolver with keys left out.                     *)
(***************************************************************************)
\* a set listing up to MaxSetLen characters, possibly none, that carries any
\* of scale_factor and baseline_offset, and possibly an individual_scaling
\* entry for 'A'
PartialSetDatas(name) ==
    LET seqs == UNION {[1..n -> Chars] : n \in 0..MaxSetLen}
        plain == {[k \in {"characters"} \cup K |->
                      IF k = "characters" THEN cs
                      ELSE IF k = "scale_factor" THEN DefaultScale(name)
                      ELSE DefaultBaseline(name)] :
                  cs \in seqs, K \in SUBSET {"scale_factor", "baseline_offset"}}
    IN  plain \cup {d @@ [individual_scaling |-> [c \in {65} |-> 20]] : d \in plain}

PartialSets(name) == {[name |-> name, data |-> d] : d \in PartialSetDatas(name)}

PartialSetConfigs ==
    UNION {{<<a>> : a \in PartialSets(n)} : n \in SetNames}
    \cup UNION {{<<a, b>> : a \in PartialSets(n), b \in PartialSets(m)} :
                    <<n, m>> \in {p \in SetNames \X SetNames : p[1] # p[2]}}

InitPartial ==
    /\ gen \in {"cli", "web"}
    /\ \E sets \in PartialSetConfigs :
          \/ /\ gen = "cli"
             /\ config = CliConfig(sets, DefaultTemplateSettings)
          \/ /\ gen = "web"
             /\ \E nested \in BOOLEAN :
                   config = WebConfig(sets, DefaultTemplateGeneration, nested)
    /\ character_overrides = EmptyDict
    /\ rasterizer = TRUE
    /\ InitRest

SpecPartial == InitPartial /\ [][NextProps]_vars

(***************************************************************************)
(* Label text of the templates.                                            *)
(***************************************************************************)
\* CliEscape with the character embedded as it is
CliEscapeNothing(char) == <<char>>

\* html.escape(char): & < > " ' become &amp; &lt; &gt; &quot; &#x27;
CliEscape(char) ==
    IF char = 38 THEN <<38, 97, 109, 112, 59>>
    ELSE IF char = 60 THEN <<38, 108, 116, 59>>
    ELSE IF char = 62 THEN <<38, 103, 116, 59>>
    ELSE IF char = 34 THEN <<38, 113, 117, 111, 116, 59>>
    ELSE IF char = 39 THEN <<38, 35, 120, 50, 55, 59>>
    ELSE <<char>>

\* the escaping of FontGenerator.generate_template_svg:
\* < > & " ' become &lt; &gt; &amp; &quot; &#39;
WebEscape(char) ==
    IF char = 60 THEN <<38, 108, 116, 59>>
    ELSE IF char = 62 THEN <<38, 103, 116, 59>>
    ELSE IF char = 38 THEN <<38, 97, 109, 112, 59>>
    ELSE IF char = 34 THEN <<38, 113, 117, 111, 116, 59>>
    ELSE IF char = 39 THEN <<38, 35, 51, 57, 59>>
    ELSE <<char>>

\* CliLabel with the text element left empty
CliLabelEmpty(i, char, ts) ==
    LET row == i \div ts.grid_cols
        col == PyMod(i, ts.grid_cols)
        x == col * (ts.template_size + ts.margin) + ts.margin
        y == row * (ts.template_size + ts.margin) + ts.margin + CliHeader
    IN  [x |-> x + ts.template_size \div 2, y |-> y - 5, text |-> <<>>]

\* <text x="{x + template_size//2}" y="{y - 5}" class="char-label">
CliLabel(i, char, ts) ==
    LET row == i \div ts.grid_cols
        col == PyMod(i, ts.grid_cols)
        x == col * (ts.template_size + ts.margin) + ts.margin
        y == row * (ts.template_size + ts.margin) + ts.margin + CliHeader
    IN  [x |-> x + ts.template_size \div 2, y |-> y - 5, text |-> CliEscape(char)]

\* <text x="{x + box_size//2}" y="{y - 10}" ...>{display_char}</text>
WebLabel(i, char, template_config) ==
    LET row == i \div WebCols
        col == i % WebCols
        x == template_config.margin
             + col * (template_config.box_size + template_config.box_spacing)
        y == template_config.margin
             + row * (template_config.box_size + template_config.box_spacing)
    IN  [x |-> x + template_config.box_size \div 2, y |-> y - 10, text |-> WebEscape(char)]

(***************************************************************************)
(* Template geometry of the command line generator.                        *)
(***************************************************************************)
\* CliTemplate with the title allowance left out of the canvas height
CliTemplateNoHeader(chars, ts) ==
    LET grid_cols == ts.grid_cols
        template_size == ts.template_size
        margin == ts.margin
        rows == (Len(chars) + grid_cols - 1) \div grid_cols
        width == grid_cols * (template_size + margin) + margin
        height == rows * (template_size + margin) + margin
    IN  [kind |-> "svg", rows |-> rows, width |-> width, height |-> height,
         boxes |-> [k \in 1..Len(chars) |->
                      LET i == k - 1
                          row == i \div grid_cols
                          col == PyMod(i, grid_cols)
                          x == col * (template_size + margin) + margin
                          y == row * (template_size + margin) + margin + CliHeader
                      IN  [x |-> x, y |-> y, width |-> template_size,
                           height |-> template_size]],
         labels |-> [k \in 1..Len(chars) |-> CliLabel(k - 1, chars[k], ts)],
         characters |-> chars]

\* CliTemplate with the row count rounded down: len(characters) // grid_cols
CliTemplateFloorRows(chars, ts) ==
    LET grid_cols == ts.grid_cols
        template_size == ts.template_size
        margin == ts.margin
        rows == Len(chars) \div grid_cols
        width == grid_cols * (template_size + margin) + margin
        height == rows * (template_size + margin) + margin + CliHeader
    IN  [kind |-> "svg", rows |-> rows, width |-> width, height |-> height,
         boxes |-> [k \in 1..Len(chars) |->
                      LET i == k - 1
                          row == i \div grid_cols
                          col == PyMod(i, grid_cols)
                          x == col * (template_size + margin) + margin
                          y == row * (template_size + margin) + margin + CliHeader
                      IN  [x |-> x, y |-> y, width |-> template_size,
                           height |-> template_size]],
         labels |-> [k \in 1..Len(chars) |-> CliLabel(k - 1, chars[k], ts)],
         characters |-> chars]

\* generate_template_svg of FontGeneratorPotrace: canvas and one box per character
CliTemplate(chars, ts) ==
    LET grid_cols == ts.grid_cols
        template_size == ts.template_size
        margin == ts.margin
        rows == (Len(chars) + grid_cols - 1) \div grid_cols
        width == grid_cols * (template_size + margin) + margin
        height == rows * (template_size + margin) + margin + CliHeader
    IN  [kind |-> "svg", rows |-> rows, width |-> width, height |-> height,
         boxes |-> [k \in 1..Len(chars) |->
                      LET i == k - 1
                          row == i \div grid_cols
                          col == PyMod(i, grid_cols)
                          x == col * (template_size + margin) + margin
                          y == row * (template_size + margin) + margin + CliHeader
                      IN  [x |-> x, y |-> y, width |-> template_size,
                           height |-> template_size]],
         labels |-> [k \in 1..Len(chars) |-> CliLabel(k - 1, chars[k], ts)],
         characters |-> chars]

\* CliCropBox with the title allowance left out of y
CliCropBoxNoHeader(i, ts) ==
    LET row == i \div ts.grid_cols
        col == i % ts.grid_cols
        x == col * (ts.template_size + ts.margin) + ts.margin
        y == row * (ts.template_size + ts.margin) + ts.margin
    IN  [x |-> x, y |-> y, width |-> (x + ts.template_size) - x,
         height |-> (y + ts.template_size) - y]

\* the box cropped for loop index i (0-based) by extract_characters_from_image
\* of FontGeneratorPotrace; Image.crop returns a region of the size asked for
CliCropBox(i, ts) ==
    LET row == i \div ts.grid_cols
        col == i % ts.grid_cols
        x == col * (ts.template_size + ts.margin) + ts.margin
        y == row * (ts.template_size + ts.margin) + ts.margin + CliHeader
    IN  [x |-> x, y |-> y, width |-> (x + ts.template_size) - x,
         height |-> (y + ts.template_size) - y]

(***************************************************************************)
(* Template geometry of the web generator.                                 *)
(***************************************************************************)
\* WebTemplate with the spacing left out of the canvas width
WebTemplateNarrow(chars, template_config) ==
    LET chars_per_row == WebCols
        num_rows == (Len(chars) + chars_per_row - 1) \div chars_per_row
        box_size == template_config.box_size
        box_spacing == template_config.box_spacing
        margin == template_config.margin
        width == margin + (chars_per_row * box_size) + margin
        height == margin + (num_rows * (box_size + box_spacing)) - box_spacing + margin
    IN  [kind |-> "svg", rows |-> num_rows, width |-> width, height |-> height,
         boxes |-> [k \in 1..Len(chars) |->
                      LET i == k - 1
                          row == i \div chars_per_row
                          col == i % chars_per_row
                      IN  [x |-> margin + col * (box_size + box_spacing),
                           y |-> margin + row * (box_size + box_spacing),
                           width |-> box_size, height |-> box_size]],
         labels |-> [k \in 1..Len(chars) |-> WebLabel(k - 1, chars[k], template_config)],
         characters |-> chars]

\* generate_template_svg of FontGenerator
WebTemplate(chars, template_config) ==
    LET chars_per_row == WebCols
        num_rows == (Len(chars) + chars_per_row - 1) \div chars_per_row
        box_size == template_config.box_size
        box_spacing == template_config.box_spacing
        margin == template_config.margin
        width == margin + (chars_per_row * (box_size + box_spacing)) - box_spacing + margin
        height == margin + (num_rows * (box_size + box_spacing)) - box_spacing + margin
    IN  [kind |-> "svg", rows |-> num_rows, width |-> width, height |-> height,
         boxes |-> [k \in 1..Len(chars) |->
                      LET i == k - 1
                          row == i \div chars_per_row
                          col == i % chars_per_row
                      IN  [x |-> margin + col * (box_size + box_spacing),
                           y |-> margin + row * (box_size + box_spacing),
                           width |-> box_size, height |-> box_size]],
         labels |-> [k \in 1..Len(chars) |-> WebLabel(k - 1, chars[k], template_config)],
         characters |-> chars]

\* config.get('template_generation', {box_size: 80, box_spacing: 10, margin: 20})
WebExtractTemplateConfig(cfg) ==
    Get(cfg, "template_generation", [box_size |-> 80, box_spacing |-> 10, margin |-> 20])

\* WebExpectedWidth without the "- box_spacing" term
WebExpectedWidthNoTrim(template_config) ==
    template_config.margin
    + (WebCols * (template_config.box_size + template_config.box_spacing))
    + template_config.margin

\* expected_width of extract_characters_from_image of FontGenerator
WebExpectedWidth(template_config) ==
    template_config.margin
    + (WebCols * (template_config.box_size + template_config.box_spacing))
    - template_config.box_spacing + template_config.margin

\* int(v * scale_factor) with scale_factor = img_width / expected_width.  The
\* product is non-negative, so int() is the floor; it is taken of the exact
\* quotient (the double rounding of the product is not represented).
ScaledInt(v, img_width, expected_width) == (v * img_width) \div expected_width

\* WebCropBox with the box size left unscaled
WebCropBoxUnscaledSize(i, template_config, img_width) ==
    LET box_size == template_config.box_size
        box_spacing == template_config.box_spacing
        margin == template_config.margin
        expected_width == WebExpectedWidth(template_config)
        row == i \div WebCols
        col == i % WebCols
        x == ScaledInt(margin + col * (box_size + box_spacing), img_width, expected_width)
        y == ScaledInt(margin + row * (box_size + box_spacing), img_width, expected_width)
    IN  [x |-> x, y |-> y, width |-> (x + box_size) - x,
         height |-> (y + box_size) - y]

\* the box cropped for loop index i (0-based) by extract_characters_from_image
\* of FontGenerator, for an image img_width wide
WebCropBox(i, template_config, img_width) ==
    LET box_size == template_config.box_size
        box_spacing == template_config.box_spacing
        margin == template_config.margin
        expected_width == WebExpectedWidth(template_config)
        row == i \div WebCols
        col == i % WebCols
        x == ScaledInt(margin + col * (box_size + box_spacing), img_width, expected_width)
        y == ScaledInt(margin + row * (box_size + box_spacing), img_width, expected_width)
        scaled_box_size == ScaledInt(box_size, img_width, expected_width)
    IN  [x |-> x, y |-> y, width |-> (x + scaled_box_size) - x,
         height |-> (y + scaled_box_size) - y]

(***************************************************************************)
(* File names of the crops.                                                *)
(***************************************************************************)
\* the decimal digits of n as code points, most significant first
RECURSIVE Decimal(_)
Decimal(n) == IF n < 10 THEN <<48 + n>> ELSE Decimal(n \div 10) \o <<48 + (n % 10)>>

RECURSIVE ZeroPad(_, _)
ZeroPad(s, w) == IF Len(s) >= w THEN s ELSE ZeroPad(<<48>> \o s, w)

\* f"{ord(char):04d}" (cli/fontgen.py:194)
CliCropName(char) == ZeroPad(Decimal(char), 4)

\* char.replace('/', 'slash').replace('\\', 'backslash').replace(':', 'colon')
WebCropName(char) ==
    IF char = 47 THEN <<115, 108, 97, 115, 104>>
    ELSE IF char = 92 THEN <<98, 97, 99, 107, 115, 108, 97, 115, 104>>
    ELSE IF char = 58 THEN <<99, 111, 108, 111, 110>>
    ELSE <<char>>

\* the files of a directory after the crops were saved in loop order
RECURSIVE SaveAll(_, _, _)
SaveAll(dir, crops, k) ==
    IF k = 0 THEN dir
    ELSE Put(SaveAll(dir, crops, k - 1), crops[k].name, crops[k].box)

(***************************************************************************)
(* Template rendering.                                                     *)
(***************************************************************************)
\* FontGeneratorPotrace.generate_template_svg: the row count divides by
\* grid_cols, which raises ZeroDivisionError before the file is opened
CliGenerateTemplateSvg ==
    /\ gen = "cli"
    /\ pc = "ready"
    /\ IF config.font_generation.template_settings.grid_cols = 0
       THEN /\ template' = template
            /\ result' = "raised"
       ELSE /\ template' = CliTemplate(characters, config.font_generation.template_settings)
            /\ result' = "ok"
    /\ UNCHANGED <<config_file, pipelineVars, cliWrapperVars>>
    /\ UNCHANGED <<rasterizer, resolutions, wrapperVars, consumerVars>>
    /\ UNCHANGED <<gen, config, character_overrides, pc, characters, char_properties,
                   png, image, extracted, char_dir>>

\* FontGenerator.generate_template_svg(output_path): characters is None;
\* config['template_generation'] raises KeyError when the section is missing
WebGenerateTemplateSvg ==
    /\ gen = "web"
    /\ pc = "ready"
    /\ IF Has(config, "template_generation")
       THEN /\ template' = WebTemplate(get_all_characters(config), config.template_generation)
            /\ result' = "ok"
       ELSE /\ template' = template
            /\ result' = "raised"
    /\ UNCHANGED <<config_file, pipelineVars, cliWrapperVars>>
    /\ UNCHANGED <<rasterizer, resolutions, wrapperVars, consumerVars>>
    /\ UNCHANGED <<gen, config, character_overrides, pc, characters, char_properties,
                   png, image, extracted, char_dir>>

\* the raster cairosvg writes for an SVG whose width and height are plain
\* numbers: one pixel per user unit (dpi only converts physical units)
CliRaster(svg) == [kind |-> "rendered", width |-> svg.width, height |-> svg.height]

\* output_width=int(svg_width * scale), output_height=int(svg_height * scale)
WebRaster(svg, scale) ==
    [kind |-> "rendered", width |-> svg.width * scale, height |-> svg.height * scale]

\* FontGeneratorPotrace.svg_to_png: the ImportError of a missing cairosvg is
\* caught and nothing is written
CliSvgToPng ==
    /\ gen = "cli"
    /\ pc = "ready"
    /\ template # NoFile
    /\ png' = IF rasterizer THEN CliRaster(template) ELSE png
    /\ result' = "ok"
    /\ UNCHANGED <<config_file, pipelineVars, cliWrapperVars>>
    /\ UNCHANGED <<rasterizer, resolutions, wrapperVars, consumerVars>>
    /\ UNCHANGED <<gen, config, character_overrides, pc, characters, char_properties,
                   template, image, extracted, char_dir>>

\* FontGeneratorPotrace.generate_template_png (--format png): the SVG is
\* written to the path of the PNG with the extension replaced, handed to
\* svg_to_png, and removed again whether or not a PNG came out of it
CliGenerateTemplatePng ==
    /\ gen = "cli"
    /\ pc = "ready"
    /\ IF config.font_generation.template_settings.grid_cols = 0
       THEN /\ result' = "raised"
            /\ UNCHANGED <<template, png>>
       ELSE /\ template' = NoFile
            /\ png' = IF rasterizer
                      THEN CliRaster(CliTemplate(characters,
                                                 config.font_generation.template_settings))
                      ELSE png
            /\ result' = "ok"
    /\ UNCHANGED <<config_file, pipelineVars, cliWrapperVars>>
    /\ UNCHANGED <<rasterizer, resolutions, wrapperVars, consumerVars>>
    /\ UNCHANGED <<gen, config, character_overrides, pc, characters, char_properties,
                   image, extracted, char_dir>>

\* FontGenerator.svg_to_png(svg_path, png_path, scale=4), as main.py calls it:
\* every exception is caught and False is returned
WebSvgToPng ==
    /\ gen = "web"
    /\ pc = "ready"
    /\ template # NoFile
    /\ png' = IF rasterizer THEN WebRaster(template, WebPngScale) ELSE png
    /\ result' = IF rasterizer THEN "ok" ELSE "false"
    /\ UNCHANGED <<config_file, pipelineVars, cliWrapperVars>>
    /\ UNCHANGED <<rasterizer, resolutions, wrapperVars, consumerVars>>
    /\ UNCHANGED <<gen, config, character_overrides, pc, characters, char_properties,
                   template, image, extracted, char_dir>>

(***************************************************************************)
(* The images handed to extraction.                                        *)
(***************************************************************************)
\* the canvas the running generator lays out for its configuration
CanvasOf(g, cfg) ==
    IF g = "cli"
    THEN CliTemplate([k \in 1..Len(LoopOrder(CliCharacterSets(cfg))) |-> 0],
                     cfg.font_generation.template_settings)
    ELSE WebTemplate(get_all_characters(cfg), WebExtractTemplateConfig(cfg))

\* filled templates as a user hands them in: the canvas shrunk by a few
\* pixels or enlarged by a whole factor, the height possibly cut short
UserImages(canvas) ==
    LET widths == {w \in {canvas.width - d : d \in 1..MaxShrink}
                         \cup {z * canvas.width : z \in 1..MaxZoom} : w >= 1}
        heights(w) == {h \in {((canvas.height * w) \div canvas.width) - d : d \in 0..MaxShrink} :
                          h >= 1}
    IN  UNION {{[kind |-> "user", width |-> w, height |-> h] : h \in heights(w)} : w \in widths}

Unreadable == [kind |-> "unreadable"]

ImageInputs ==
    UserImages(CanvasOf(gen, config)) \cup {Unreadable} \cup (IF png = NoFile THEN {} ELSE {png})

(***************************************************************************)
(* Extraction.                                                             *)
(***************************************************************************)
\* FontGeneratorPotrace.extract_characters_from_image
CliExtract ==
    /\ gen = "cli"
    /\ pc = "ready"
    /\ \E img \in ImageInputs :
          IF img = Unreadable
          THEN /\ result' = "false"
               /\ UNCHANGED <<image, extracted, char_dir>>
          ELSE /\ image' = img
               /\ LET ts == config.font_generation.template_settings
                      crops == [k \in 1..Len(characters) |->
                                  [char |-> characters[k],
                                   name |-> CliCropName(characters[k]),
                                   box |-> CliCropBox(k - 1, ts)]]
                  IN  /\ extracted' = crops
                      /\ char_dir' = SaveAll(char_dir, crops, Len(crops))
                      /\ result' = "ok"
    /\ UNCHANGED <<config_file, pipelineVars, cliWrapperVars>>
    /\ UNCHANGED <<rasterizer, resolutions, wrapperVars, consumerVars>>
    /\ UNCHANGED <<gen, config, character_overrides, pc, characters, char_properties,
                   template, png>>

\* FontGenerator.extract_characters_from_image; saving a crop of size zero
\* raises in Image.save, which ends the call at the first character
WebExtract ==
    /\ gen = "web"
    /\ pc = "ready"
    /\ \E img \in ImageInputs :
          IF img = Unreadable
          THEN /\ result' = "raised"
               /\ UNCHANGED <<image, extracted, char_dir>>
          ELSE /\ image' = img
               /\ LET template_config == WebExtractTemplateConfig(config)
                      chars == get_all_characters(config)
                      crops == [k \in 1..Len(chars) |->
                                  [char |-> chars[k],
                                   name |-> WebCropName(chars[k]),
                                   box |-> WebCropBox(k - 1, template_config, img.width)]]
                  IN  IF Len(crops) > 0 /\ crops[1].box.width = 0
                      THEN /\ result' = "raised"
                           /\ extracted' = <<>>
                           /\ char_dir' = char_dir
                      ELSE /\ extracted' = crops
                           /\ char_dir' = SaveAll(char_dir, crops, Len(crops))
                           /\ result' = "ok"
    /\ UNCHANGED <<config_file, pipelineVars, cliWrapperVars>>
    /\ UNCHANGED <<rasterizer, resolutions, wrapperVars, consumerVars>>
    /\ UNCHANGED <<gen, config, character_overrides, pc, characters, char_properties,
                   template, png>>

(***************************************************************************)
(* Inputs of the layout: grid parameters and character counts.             *)
(***************************************************************************)
CharCounts == (1..MaxChars) \cup {10, 14, 26}

\* one character set holding the first n capital letters and what follows them
GridSets(n) ==
    <<[name |-> "uppercase",
       data |-> [characters |-> [k \in 1..n |-> 64 + k],
                 scale_factor |-> DefaultScale("uppercase"),
                 baseline_offset |-> DefaultBaseline("uppercase")]]>>

CliTemplateSettings ==
    {[template_size |-> s, grid_cols |-> c, margin |-> m] :
        s \in (1..MaxCell) \cup {DefaultTemplateSettings.template_size},
        c \in (1..MaxCols) \cup {DefaultTemplateSettings.grid_cols},
        m \in (0..MaxMargin) \cup {DefaultTemplateSettings.margin}}

WebTemplateGenerations ==
    {[box_size |-> s, box_spacing |-> p, margin |-> m] :
        s \in (1..MaxCell) \cup {DefaultTemplateGeneration.box_size},
        p \in (0..MaxSpacing) \cup {DefaultTemplateGeneration.box_spacing},
        m \in (0..MaxMargin) \cup {DefaultTemplateGeneration.margin}}

InitGrid ==
    /\ gen \in {"cli", "web"}
    /\ \E n \in CharCounts :
          \/ /\ gen = "cli"
             /\ \E ts \in CliTemplateSettings : config = CliConfig(GridSets(n), ts)
          \/ /\ gen = "web"
             /\ \/ \E tg \in WebTemplateGenerations : config = WebConfig(GridSets(n), tg, FALSE)
                \/ config = [font_generation |-> [character_sets |-> GridSets(n)]]
    /\ character_overrides = EmptyDict
    /\ rasterizer \in BOOLEAN
    /\ InitRest

NextGrid ==
    \/ CliInit
    \/ WebInit
    \/ CliGenerateTemplateSvg
    \/ WebGenerateTemplateSvg
    \/ CliSvgToPng
    \/ CliGenerateTemplatePng
    \/ WebSvgToPng
    \/ CliExtract
    \/ WebExtract

SpecGrid == InitGrid /\ [][NextGrid]_vars

(***************************************************************************)
(* File names of CLIWrapper (web_app/core/cli_wrapper.py).                 *)
(***************************************************************************)
\* char_map of CLIWrapper._char_to_filename
WrapperCharMap ==
    (47 :> <<115, 108, 97, 115, 104>>)    \* '/': 'slash'
    @@ (92 :> <<98, 97, 99, 107, 115, 108, 97, 115, 104>>)    \* '\\': 'backslash'
    @@ (58 :> <<99, 111, 108, 111, 110>>)    \* ':': 'colon'
    @@ (42 :> <<97, 115, 116, 101, 114, 105, 115, 107>>)    \* '*': 'asterisk'
    @@ (63 :> <<113, 117, 101, 115, 116, 105, 111, 110>>)    \* '?': 'question'
    @@ (34 :> <<113, 117, 111, 116, 101>>)    \* '"': 'quote'
    @@ (39 :> <<97, 112, 111, 115, 116, 114, 111, 112, 104, 101>>)    \* "'": 'apostrophe'
    @@ (60 :> <<108, 101, 115, 115>>)    \* '<': 'less'
    @@ (62 :> <<103, 114, 101, 97, 116, 101, 114>>)    \* '>': 'greater'
    @@ (124 :> <<112, 105, 112, 101>>)    \* '|': 'pipe'
    @@ (32 :> <<115, 112, 97, 99, 101>>)    \* ' ': 'space'

\* char_map of CLIWrapper._filename_to_char
WrapperNameMap ==
    (<<115, 108, 97, 115, 104>> :> <<47>>)    \* 'slash': '/'
    @@ (<<98, 97, 99, 107, 115, 108, 97, 115, 104>> :> <<92>>)    \* 'backslash': '\\'
    @@ (<<99, 111, 108, 111, 110>> :> <<58>>)    \* 'colon': ':'
    @@ (<<97, 115, 116, 101, 114, 105, 115, 107>> :> <<42>>)    \* 'asterisk': '*'
    @@ (<<113, 117, 101, 115, 116, 105, 111, 110>> :> <<63>>)    \* 'question': '?'
    @@ (<<113, 117, 111, 116, 101>> :> <<34>>)    \* 'quote': '"'
    @@ (<<97, 112, 111, 115, 116, 114, 111, 112, 104, 101>> :> <<39>>)    \* 'apostrophe': "'"
    @@ (<<108, 101, 115, 115>> :> <<60>>)    \* 'less': '<'
    @@ (<<103, 114, 101, 97, 116, 101, 114>> :> <<62>>)    \* 'greater': '>'
    @@ (<<112, 105, 112, 101>> :> <<124>>)    \* 'pipe': '|'
    @@ (<<115, 112, 97, 99, 101>> :> <<32>>)    \* 'space': ' '

\* str.isalnum() of a single character of Latin-1
Isalnum(c) ==
    c \in (48..57) \cup (65..90) \cup (97..122) \cup {170, 178, 179, 181, 185, 186}
          \cup (188..190) \cup (192..214) \cup (216..246) \cup (248..255)

\* str.isdigit() of a string of ASCII characters; false of the empty string
Isdigit(s) == s # <<>> /\ \A k \in 1..Len(s) : s[k] \in 48..57

\* int(s) of a string of decimal digits
RECURSIVE ParseInt(_)
ParseInt(s) ==
    IF s = <<>> THEN 0 ELSE 10 * ParseInt(SubSeq(s, 1, Len(s) - 1)) + (s[Len(s)] - 48)

\* the string "char_"
CharPrefix == <<99, 104, 97, 114, 95>>

\* CLIWrapper._char_to_filename, of a one-character string
char_to_filename(char) ==
    IF char \in DOMAIN WrapperCharMap THEN WrapperCharMap[char]
    ELSE IF ~Isalnum(char) /\ char \notin {45, 95, 46} THEN CharPrefix \o Decimal(char)
    ELSE <<char>>

\* filename_to_char without the char_NNN form
filename_to_char_map_only(name) ==
    IF name \in DOMAIN WrapperNameMap THEN WrapperNameMap[name] ELSE name

\* CLIWrapper._filename_to_char
filename_to_char(name) ==
    IF Len(name) >= 5 /\ SubSeq(name, 1, 5) = CharPrefix /\ Isdigit(SubSeq(name, 6, Len(name)))
    THEN <<ParseInt(SubSeq(name, 6, Len(name)))>>
    ELSE IF name \in DOMAIN WrapperNameMap THEN WrapperNameMap[name] ELSE name

\* the identifiers converted: printable ASCII and n with tilde
CodecChars == (32..126) \cup {241}

\* self._char_to_filename(char)
CharToFilename ==
    /\ identifier # <<>>
    /\ filename = <<>>
    /\ filename' = char_to_filename(identifier[1])
    /\ UNCHANGED <<identifier, decoded>>
    /\ UNCHANGED <<config_file, pipelineVars, cliWrapperVars>>
    /\ UNCHANGED <<rasterizer, resolutions, consumerVars>>
    /\ UNCHANGED <<gen, config, character_overrides, pc, characters, char_properties,
                   template, png, image, extracted, char_dir, result>>

\* self._filename_to_char(char_name)
FilenameToChar ==
    /\ filename # <<>>
    /\ decoded = <<>>
    /\ decoded' = filename_to_char(filename)
    /\ UNCHANGED <<identifier, filename>>
    /\ UNCHANGED <<config_file, pipelineVars, cliWrapperVars>>
    /\ UNCHANGED <<rasterizer, resolutions, consumerVars>>
    /\ UNCHANGED <<gen, config, character_overrides, pc, characters, char_properties,
                   template, png, image, extracted, char_dir, result>>

InitCodec ==
    /\ gen = "web"
    /\ config = WebConfig(GridSets(1), DefaultTemplateGeneration, FALSE)
    /\ character_overrides = EmptyDict
    /\ rasterizer = TRUE
    /\ pc = "start"
    /\ characters = <<>>
    /\ char_properties = EmptyDict
    /\ template = NoFile
    /\ png = NoFile
    /\ image = NoFile
    /\ extracted = <<>>
    /\ char_dir = EmptyDict
    /\ result = "none"
    /\ resolutions = 0
    /\ identifier \in {<<c>> : c \in CodecChars}
    /\ filename = <<>>
    /\ decoded = <<>>
    /\ character_map = {}
    /\ glyphs = {}
    /\ config_file = config
    /\ step = "idle"
    /\ stages = <<>>
    /\ waiting = NoTool
    /\ ttf = FALSE
    /\ cwd = ServerDir
    /\ wrapper_config = EmptyDict

NextCodec == CharToFilename \/ FilenameToChar

SpecCodec == InitCodec /\ [][NextCodec]_vars

(***************************************************************************)
(* The consumers of the crops' file names.  preprocess_for_potrace and     *)
(* potrace_to_svg write <stem>.pbm and <stem>.svg for every <stem>.png, so *)
(* the names listed in the SVG directory are the names of char_dir.        *)
(***************************************************************************)
\* char_map of get_actual_character (web_app/main.py)
ActualCharMap ==
    (<<115, 108, 97, 115, 104>> :> <<47>>)    \* 'slash': '/'
    @@ (<<98, 97, 99, 107, 115, 108, 97, 115, 104>> :> <<92>>)    \* 'backslash': '\\'
    @@ (<<99, 111, 108, 111, 110>> :> <<58>>)    \* 'colon': ':'
    @@ (<<97, 115, 116, 101, 114, 105, 115, 107>> :> <<42>>)    \* 'asterisk': '*'
    @@ (<<113, 117, 101, 115, 116, 105, 111, 110>> :> <<63>>)    \* 'question': '?'
    @@ (<<113, 117, 111, 116, 101>> :> <<34>>)    \* 'quote': '"'
    @@ (<<97, 112, 111, 115, 116, 114, 111, 112, 104, 101>> :> <<39>>)    \* 'apostrophe': "'"
    @@ (<<108, 101, 115, 115>> :> <<60>>)    \* 'less': '<'
    @@ (<<103, 114, 101, 97, 116, 101, 114>> :> <<62>>)    \* 'greater': '>'
    @@ (<<112, 105, 112, 101>> :> <<124>>)    \* 'pipe': '|'
    @@ (<<115, 112, 97, 99, 101>> :> <<32>>)    \* 'space': ' '
    @@ (<<116, 97, 98>> :> <<9>>)    \* 'tab': '\t'
    @@ (<<110, 101, 119, 108, 105, 110, 101>> :> <<10>>)    \* 'newline': '\n'
    @@ (<<114, 101, 116, 117, 114, 110>> :> <<13>>)    \* 'return': '\r'
    @@ (<<97, 109, 112, 101, 114, 115, 97, 110, 100>> :> <<38>>)    \* 'ampersand': '&'
    @@ (<<112, 101, 114, 99, 101, 110, 116>> :> <<37>>)    \* 'percent': '%'
    @@ (<<104, 97, 115, 104>> :> <<35>>)    \* 'hash': '#'
    @@ (<<97, 116>> :> <<64>>)    \* 'at': '@'
    @@ (<<101, 120, 99, 108, 97, 109, 97, 116, 105, 111, 110>> :> <<33>>)    \* 'exclamation': '!'
    @@ (<<116, 105, 108, 100, 101>> :> <<126>>)    \* 'tilde': '~'
    @@ (<<98, 97, 99, 107, 116, 105, 99, 107>> :> <<96>>)    \* 'backtick': '`'

\* get_actual_character without its char_map
get_actual_character_verbatim(char_name) ==
    IF Len(char_name) >= 5 /\ SubSeq(char_name, 1, 5) = CharPrefix
       /\ Isdigit(SubSeq(char_name, 6, Len(char_name)))
    THEN <<ParseInt(SubSeq(char_name, 6, Len(char_name)))>>
    ELSE char_name

\* get_actual_character (web_app/main.py)
get_actual_character(char_name) ==
    IF Len(char_name) >= 5 /\ SubSeq(char_name, 1, 5) = CharPrefix
       /\ Isdigit(SubSeq(char_name, 6, Len(char_name)))
    THEN <<ParseInt(SubSeq(char_name, 6, Len(char_name)))>>
    ELSE IF char_name \in DOMAIN ActualCharMap THEN ActualCharMap[char_name] ELSE char_name

\* char_map of the script create_fontforge_script_with_svg writes
ScriptCharMap ==
    (<<115, 108, 97, 115, 104>> :> <<47>>)    \* 'slash': '/'
    @@ (<<98, 97, 99, 107, 115, 108, 97, 115, 104>> :> <<92>>)    \* 'backslash': '\\'
    @@ (<<99, 111, 108, 111, 110>> :> <<58>>)    \* 'colon': ':'
    @@ (<<108, 101, 115, 115>> :> <<60>>)    \* 'less': '<'
    @@ (<<103, 114, 101, 97, 116, 101, 114>> :> <<62>>)    \* 'greater': '>'
    @@ (<<113, 117, 101, 115, 116, 105, 111, 110>> :> <<63>>)    \* 'question': '?'
    @@ (<<113, 117, 111, 116, 101>> :> <<34>>)    \* 'quote': '"'
    @@ (<<97, 112, 111, 115, 116, 114, 111, 112, 104, 101>> :> <<39>>)    \* 'apostrophe': "'"

\* actual_char = char_map.get(char_name, char_name)
ScriptActualChar(char_name) ==
    IF char_name \in DOMAIN ScriptCharMap THEN ScriptCharMap[char_name] ELSE char_name

\* the loop of generate_preview over the SVG files: svg_files holds the
\* character found for every file name
WebPreviewCharacterMap ==
    /\ gen = "web"
    /\ pc = "ready"
    /\ char_dir # EmptyDict
    /\ character_map' = {[char_name |-> n, character |-> get_actual_character(n)] :
                            n \in DOMAIN char_dir}
    /\ result' = "ok"
    /\ UNCHANGED <<config_file, pipelineVars, cliWrapperVars>>
    /\ UNCHANGED <<rasterizer, resolutions, wrapperVars, glyphs>>
    /\ UNCHANGED <<gen, config, character_overrides, pc, characters, char_properties,
                   template, png, image, extracted, char_dir>>

\* the loop of the FontForge script of the web generator: a glyph is created
\* for every file whose character has properties
WebFontScript ==
    /\ gen = "web"
    /\ pc = "ready"
    /\ char_dir # EmptyDict
    /\ glyphs' = {[char_name |-> n, character |-> ScriptActualChar(n)] :
                     n \in {m \in DOMAIN char_dir :
                                \E c \in DOMAIN char_properties : ScriptActualChar(m) = <<c>>}}
    /\ result' = "ok"
    /\ UNCHANGED <<config_file, pipelineVars, cliWrapperVars>>
    /\ UNCHANGED <<rasterizer, resolutions, wrapperVars, character_map>>
    /\ UNCHANGED <<gen, config, character_overrides, pc, characters, char_properties,
                   template, png, image, extracted, char_dir>>

\* the loop of the FontForge script of the command line generator: a glyph is
\* created for every character whose f"{unicode_val:04d}.svg" exists
CliFontScript ==
    /\ gen = "cli"
    /\ pc = "ready"
    /\ char_dir # EmptyDict
    /\ glyphs' = {[char_name |-> CliCropName(c), character |-> <<c>>] :
                     c \in {d \in DOMAIN char_properties : CliCropName(d) \in DOMAIN char_dir}}
    /\ result' = "ok"
    /\ UNCHANGED <<config_file, pipelineVars, cliWrapperVars>>
    /\ UNCHANGED <<rasterizer, resolutions, wrapperVars, character_map>>
    /\ UNCHANGED <<gen, config, character_overrides, pc, characters, char_properties,
                   template, png, image, extracted, char_dir>>

(***************************************************************************)
(* Inputs of the naming: character sets of punctuation, letters and an     *)
(* accented letter, at the default geometry.                               *)
(***************************************************************************)
\* / \ : * ? " ' < > | & space . A a and n with tilde
NameChars == {47, 92, 58, 42, 63, 34, 39, 60, 62, 124, 38, 32, 46, 65, 97, 241}

\* one set of up to MaxSetLen different characters
NameSets ==
    {<<[name |-> "symbols",
        data |-> [characters |-> cs,
                  scale_factor |-> DefaultScale("symbols"),
                  baseline_offset |-> DefaultBaseline("symbols")]]>> :
        cs \in {q \in UNION {[1..n -> NameChars] : n \in 1..MaxSetLen} :
                   \A j, k \in 1..Len(q) : j # k => q[j] # q[k]}}

InitNames ==
    /\ gen \in {"cli", "web"}
    /\ \E sets \in NameSets :
          \/ /\ gen = "cli"
             /\ config = CliConfig(sets, DefaultTemplateSettings)
          \/ /\ gen = "web"
             /\ config = WebConfig(sets, DefaultTemplateGeneration, FALSE)
    /\ character_overrides = EmptyDict
    /\ rasterizer = TRUE
    /\ InitRest

NextNames ==
    \/ CliInit
    \/ WebInit
    \/ CliGenerateTemplateSvg
    \/ WebGenerateTemplateSvg
    \/ CliExtract
    \/ WebExtract
    \/ WebPreviewCharacterMap
    \/ WebFontScript
    \/ CliFontScript

SpecNames == InitNames /\ [][NextNames]_vars

(***************************************************************************)
(* Inputs of the layout that no grid can be drawn for: sizes and column    *)
(* counts down to -1, no character at all.                                 *)
(***************************************************************************)
UncheckedTemplateSettings ==
    {[template_size |-> s, grid_cols |-> c, margin |-> m] :
        s \in (-1)..MaxCell, c \in (-1)..MaxCols, m \in (-1)..MaxMargin}

UncheckedTemplateGenerations ==
    {[box_size |-> s, box_spacing |-> p, margin |-> m] :
        s \in (-1)..MaxCell, p \in (-1)..MaxSpacing, m \in (-1)..MaxMargin}

InitUnchecked ==
    /\ gen \in {"cli", "web"}
    /\ \E n \in 0..MaxChars :
          \/ /\ gen = "cli"
             /\ \E ts \in UncheckedTemplateSettings : config = CliConfig(GridSets(n), ts)
          \/ /\ gen = "web"
             /\ \E tg \in UncheckedTemplateGenerations :
                   config = WebConfig(GridSets(n), tg, FALSE)
    /\ character_overrides = EmptyDict
    /\ rasterizer = TRUE
    /\ InitRest

NextUnchecked ==
    \/ CliInit
    \/ WebInit
    \/ CliGenerateTemplateSvg
    \/ WebGenerateTemplateSvg

SpecUnchecked == InitUnchecked /\ [][NextUnchecked]_vars

(***************************************************************************)
(* Inputs of the web server: config.json and the requests.                 *)
(***************************************************************************)
\* glyph_settings of the default configuration
DefaultGlyphSettings ==
    [width |-> 500, left_bearing |-> 25, right_bearing |-> 25, space_width |-> 1800]

\* the capital letters and one more set, which update_config knows
\* ("lowercase") or does not know ("accented")
ServerSets(second) ==
    <<[name |-> "uppercase",
       data |-> [characters |-> <<65, 66>>,
                 scale_factor |-> DefaultScale("uppercase"),
                 baseline_offset |-> DefaultBaseline("uppercase")]],
      [name |-> second,
       data |-> [characters |-> <<97>>,
                 scale_factor |-> DefaultScale(second),
                 baseline_offset |-> DefaultBaseline(second)]]>>

\* the configuration file of the server, in the flat or the nested layout,
\* with or without glyph settings
ServerConfig(second, nested, with_glyphs) ==
    LET base == WebConfig(ServerSets(second), DefaultTemplateGeneration, nested)
    IN  IF ~with_glyphs THEN base
        ELSE IF nested
        THEN [base EXCEPT !.font_generation = @ @@ [glyph_settings |-> DefaultGlyphSettings]]
        ELSE base @@ [glyph_settings |-> DefaultGlyphSettings]

ServerConfigs ==
    {ServerConfig(second, nested, with_glyphs) :
        second \in {"lowercase", "accented"}, nested \in BOOLEAN, with_glyphs \in BOOLEAN}

\* the characters field of a template request: empty, a JSON list of
\* characters, or a JSON object of character sets, complete or without defaults
CharactersForms ==
    {[type |-> "empty"],
     [type |-> "list", characters |-> <<66, 65>>],
     [type |-> "list", characters |-> <<97>>],
     [type |-> "sets",
      character_sets |-> <<[name |-> "picked",
                            data |-> [characters |-> <<66>>,
                                      scale_factor |-> 35,
                                      baseline_offset |-> 130]]>>],
     [type |-> "sets",
      character_sets |-> <<[name |-> "picked", data |-> [characters |-> <<66>>]]>>]}

(***************************************************************************)
(* The web server (web_app/main.py): one FontGenerator, font_gen, serves   *)
(* every request.                                                          *)
(***************************************************************************)
\* where update_config and _build_char_properties find the character sets:
\* "top", "nested", or "none" when the lookup gives an empty or new dict
CharacterSetsPath(cfg) ==
    IF Has(cfg, "character_sets") /\ cfg.character_sets # <<>> THEN "top"
    ELSE IF Has(cfg, "font_generation") /\ Has(cfg.font_generation, "character_sets")
    THEN "nested"
    ELSE "none"

\* where update_config finds the glyph settings; an empty dict is not updated
GlyphSettingsPath(cfg) ==
    IF Has(cfg, "glyph_settings") /\ cfg.glyph_settings # EmptyDict THEN "top"
    ELSE IF Has(cfg, "font_generation") /\ Has(cfg.font_generation, "glyph_settings")
            /\ cfg.font_generation.glyph_settings # EmptyDict
    THEN "nested"
    ELSE "none"

\* the key of new_settings that carries the scale of a set, for the four
\* sets update_config knows
ScaleKey(set_name) ==
    IF set_name = "uppercase" THEN "uppercase_scale"
    ELSE IF set_name = "lowercase" THEN "lowercase_scale"
    ELSE IF set_name = "numbers" THEN "numbers_scale"
    ELSE IF set_name = "symbols" THEN "symbols_scale"
    ELSE "none"

GlyphKeys == {"space_width", "left_bearing", "right_bearing"}

\* UpdatedSets that writes the scale into every set of the configuration
UpdatedSetsAll(sets, new_settings) ==
    [s \in 1..Len(sets) |->
        IF \E k \in DOMAIN new_settings : k \notin GlyphKeys
        THEN [sets[s] EXCEPT !.data =
                 Put(@, "scale_factor",
                     new_settings[CHOOSE k \in DOMAIN new_settings : k \notin GlyphKeys])]
        ELSE sets[s]]

\* character_sets_path[name]['scale_factor'] = new_settings[name + '_scale']
UpdatedSets(sets, new_settings) ==
    [s \in 1..Len(sets) |->
        IF ScaleKey(sets[s].name) \in DOMAIN new_settings
        THEN [sets[s] EXCEPT !.data =
                 Put(@, "scale_factor", new_settings[ScaleKey(sets[s].name)])]
        ELSE sets[s]]

\* glyph_settings_path[key] = new_settings[key] for the three glyph keys
UpdatedGlyphSettings(glyph_settings, new_settings) ==
    [k \in DOMAIN glyph_settings \cup (GlyphKeys \cap DOMAIN new_settings) |->
        IF k \in GlyphKeys \cap DOMAIN new_settings THEN new_settings[k]
        ELSE glyph_settings[k]]

\* the configuration FontGenerator.update_config leaves behind: the dicts it
\* looked up are changed in place
UpdatedConfig(cfg, new_settings) ==
    LET withSets ==
            IF CharacterSetsPath(cfg) = "top"
            THEN [cfg EXCEPT !.character_sets = UpdatedSets(@, new_settings)]
            ELSE IF CharacterSetsPath(cfg) = "nested"
            THEN [cfg EXCEPT !.font_generation.character_sets = UpdatedSets(@, new_settings)]
            ELSE cfg
    IN  IF GlyphSettingsPath(cfg) = "top"
        THEN [withSets EXCEPT !.glyph_settings = UpdatedGlyphSettings(@, new_settings)]
        ELSE IF GlyphSettingsPath(cfg) = "nested"
        THEN [withSets EXCEPT !.font_generation.glyph_settings =
                                  UpdatedGlyphSettings(@, new_settings)]
        ELSE withSets

\* the values a request sends for the seven settings (scales in tenths)
SettingValue(key) ==
    IF key = "uppercase_scale" THEN 28
    ELSE IF key = "lowercase_scale" THEN 25
    ELSE IF key = "numbers_scale" THEN 38
    ELSE IF key = "symbols_scale" THEN 35
    ELSE IF key = "space_width" THEN 2000
    ELSE 30

SettingKeys ==
    {"uppercase_scale", "lowercase_scale", "numbers_scale", "symbols_scale"} \cup GlyphKeys

\* the settings of a request: any one or two of the keys, or all seven
Settings ==
    {[k \in K |-> SettingValue(k)] :
        K \in {J \in SUBSET SettingKeys : Cardinality(J) <= 2 \/ J = SettingKeys}}

\* POST /api/config, and the first statement of POST /api/preview:
\* font_gen.update_config(settings); the rebuild at its end raises KeyError
\* for a set without defaults
WebApiConfig ==
    /\ gen = "web"
    /\ pc = "ready"
    /\ \E new_settings \in Settings :
          /\ config' = UpdatedConfig(config, new_settings)
          /\ IF RaisesKeyError(WebCharacterSets(UpdatedConfig(config, new_settings)))
             THEN /\ result' = "raised"
                  /\ char_properties' = char_properties
             ELSE /\ result' = "ok"
                  /\ char_properties'
                         = build_char_properties(UpdatedConfig(config, new_settings))
    /\ UNCHANGED <<config_file, pipelineVars, cliWrapperVars>>
    /\ UNCHANGED <<rasterizer, resolutions, wrapperVars, consumerVars>>
    /\ UNCHANGED <<gen, character_overrides, pc, characters, template, png, image,
                   extracted, char_dir>>

\* temp_config['character_sets'] of generate_template: a list of characters
\* becomes the one set 'custom', anything else is taken as the sets themselves
TempCharacterSets(selected_chars) ==
    IF selected_chars.type = "list"
    THEN <<[name |-> "custom",
            data |-> [characters |-> selected_chars.characters,
                      scale_factor |-> 35,
                      baseline_offset |-> 130]]>>
    ELSE selected_chars.character_sets

\* json.loads(characters) if characters else font_gen.get_all_characters()
SelectedChars(characters_form, cfg) ==
    IF characters_form.type = "empty"
    THEN [type |-> "list", characters |-> get_all_characters(cfg)]
    ELSE characters_form

\* POST /api/generate-template.  The configuration is put back by two plain
\* statements after generate_template_svg, so an exception raised between
\* the swap and the restore leaves the temporary configuration in font_gen.
\* written: whether the SVG file could be written.
WebApiGenerateTemplate ==
    /\ gen = "web"
    /\ pc = "ready"
    /\ \E characters_form \in CharactersForms, format \in {"svg", "png"}, written \in BOOLEAN :
          LET sets == TempCharacterSets(SelectedChars(characters_form, config))
              temp_config == Put(config, "character_sets", sets)
              chars == Concat([s \in 1..Len(sets) |-> sets[s].data.characters])
          IN  IF RaisesKeyError(sets)
              THEN /\ config' = temp_config
                   /\ result' = "raised"
                   /\ UNCHANGED <<char_properties, template, png>>
              ELSE IF ~Has(temp_config, "template_generation") \/ ~written
              THEN /\ config' = temp_config
                   /\ char_properties' = build_char_properties(temp_config)
                   /\ result' = "raised"
                   /\ UNCHANGED <<template, png>>
              ELSE /\ config' = config
                   /\ template' = WebTemplate(chars, temp_config.template_generation)
                   /\ IF RaisesKeyError(WebCharacterSets(config))
                      THEN /\ char_properties' = build_char_properties(temp_config)
                           /\ result' = "raised"
                           /\ png' = png
                      ELSE /\ char_properties' = build_char_properties(config)
                           /\ result' = "ok"
                           /\ png' = IF format = "png" /\ rasterizer
                                     THEN WebRaster(WebTemplate(chars,
                                                        temp_config.template_generation),
                                                    WebPngScale)
                                     ELSE png
    /\ UNCHANGED <<config_file, pipelineVars, cliWrapperVars>>
    /\ UNCHANGED <<rasterizer, resolutions, wrapperVars, consumerVars>>
    /\ UNCHANGED <<gen, character_overrides, pc, characters, image, extracted, char_dir>>

InitWeb ==
    /\ gen = "web"
    /\ config \in ServerConfigs
    /\ character_overrides = EmptyDict
    /\ rasterizer = TRUE
    /\ InitRest

NextWeb == WebInit \/ WebApiConfig \/ WebApiGenerateTemplate

SpecWeb == InitWeb /\ [][NextWeb]_vars

\* the web workflow on one configuration file: templates are requested and
\* filled templates are extracted
InitWebFlow ==
    /\ gen = "web"
    /\ \E nested \in BOOLEAN : config = ServerConfig("lowercase", nested, FALSE)
    /\ character_overrides = EmptyDict
    /\ rasterizer = TRUE
    /\ InitRest

NextWebFlow == WebInit \/ WebApiGenerateTemplate \/ WebExtract

SpecWebFlow == InitWebFlow /\ [][NextWebFlow]_vars

(***************************************************************************)
(* Runs of the program on one font name: every run is a new invocation     *)
(* that loads config.json as it is then; the files of earlier runs stay.   *)
(***************************************************************************)
\* config.json with the first n capital letters, for the running generator
RunConfig(g, n) ==
    IF g = "cli"
    THEN CliConfig(GridSets(n), DefaultTemplateSettings)
    ELSE WebConfig(GridSets(n), DefaultTemplateGeneration, FALSE)

\* the program ends, config.json is edited, and the program is started anew:
\* a new generator object is about to be constructed, the directories on disk
\* are as the earlier runs left them
NewInvocation ==
    /\ pc \in {"ready", "failed"}
    /\ \E n \in 1..MaxChars :
          /\ config' = RunConfig(gen, n)
          /\ config_file' = RunConfig(gen, n)
    /\ pc' = "start"
    /\ characters' = <<>>
    /\ char_properties' = EmptyDict
    /\ result' = "none"
    /\ resolutions' = 0
    /\ UNCHANGED <<pipelineVars, cliWrapperVars>>
    /\ UNCHANGED <<rasterizer, wrapperVars, consumerVars>>
    /\ UNCHANGED <<gen, character_overrides, template, png, image, extracted, char_dir>>

InitRuns ==
    /\ gen \in {"cli", "web"}
    /\ \E n \in 1..MaxChars : config = RunConfig(gen, n)
    /\ character_overrides = EmptyDict
    /\ rasterizer = TRUE
    /\ InitRest

NextRuns == CliInit \/ WebInit \/ CliExtract \/ WebExtract \/ NewInvocation

SpecRuns == InitRuns /\ [][NextRuns]_vars

(***************************************************************************)
(* generate_font_with_potrace of the CLI.  The function waits for three    *)
(* external programs; between the start of a program and its end the       *)
(* function is at the step of that program.  The configuration carries the *)
(* sections potrace_settings, font_properties and glyph_settings, as       *)
(* config.json and the default configuration do.                           *)
(***************************************************************************)
\* timeout=300 of the FontForge run, in seconds
FontforgeTimeout == 300

\* the order of the stages in the body of generate_font_with_potrace
StageOrder == <<"check", "extract", "preprocess", "potrace", "script", "fontforge">>

\* a stage is entered
Ran(log, stage, outcome) == Append(log, [stage |-> stage, outcome |-> outcome])

\* the stage entered last has ended
Finished(log, outcome) == [log EXCEPT ![Len(log)].outcome = outcome]

\* the crops extract_characters_from_image saves for the character list
CliCrops(chars, ts) ==
    [k \in 1..Len(chars) |->
        [char |-> chars[k], name |-> CliCropName(chars[k]), box |-> CliCropBox(k - 1, ts)]]

\* FontforgeVerdict that does not look for the font file
FontforgeVerdictExitOnly(outcome, exists) ==
    IF outcome = "exit0" THEN "true" ELSE "false"

\* the value returned after the FontForge run: True when returncode == 0 and
\* os.path.exists(font_name + '.ttf'); a timeout and any other exception are
\* caught and give False
FontforgeVerdict(outcome, exists) ==
    IF outcome = "exit0" /\ exists THEN "true" ELSE "false"

\* the call: subprocess.run(['fontforge', '--version'], capture_output=True,
\* check=True) is started, without a timeout
GenerateFontWithPotrace ==
    /\ gen = "cli"
    /\ pc = "ready"
    /\ step = "idle"
    /\ step' = "check"
    /\ stages' = Ran(<<>>, "check", "running")
    /\ waiting' = [tool |-> "fontforge --version", limit |-> 0]
    /\ UNCHANGED <<ttf, config_file, cliWrapperVars>>
    /\ UNCHANGED <<rasterizer, resolutions, wrapperVars, consumerVars>>
    /\ UNCHANGED <<gen, config, character_overrides, pc, characters, char_properties,
                   template, png, image, extracted, char_dir, result>>

\* fontforge --version has ended: when it was not found or failed, False is
\* returned; else the image is extracted (False when it cannot be opened),
\* the crops are preprocessed and potrace is started, without a timeout
FontforgeCheckReturns ==
    /\ step = "check"
    /\ \E found \in BOOLEAN, img \in ImageInputs :
          IF ~found
          THEN /\ stages' = Finished(stages, "missing")
               /\ result' = "false"
               /\ step' = "done"
               /\ waiting' = NoTool
               /\ UNCHANGED <<image, extracted, char_dir>>
          ELSE IF img = Unreadable
          THEN /\ stages' = Ran(Finished(stages, "ok"), "extract", "unreadable")
               /\ result' = "false"
               /\ step' = "done"
               /\ waiting' = NoTool
               /\ UNCHANGED <<image, extracted, char_dir>>
          ELSE /\ image' = img
               /\ LET crops == CliCrops(characters, config.font_generation.template_settings)
                  IN  /\ extracted' = crops
                      /\ char_dir' = SaveAll(char_dir, crops, Len(crops))
               /\ stages' = Ran(Ran(Ran(Finished(stages, "ok"), "extract", "ok"),
                                    "preprocess", "ok"),
                                "potrace", "running")
               /\ step' = "potrace"
               /\ waiting' = [tool |-> "potrace", limit |-> 0]
               /\ result' = result
    /\ UNCHANGED <<ttf, config_file, cliWrapperVars>>
    /\ UNCHANGED <<rasterizer, resolutions, wrapperVars, consumerVars>>
    /\ UNCHANGED <<gen, config, character_overrides, pc, characters, char_properties,
                   template, png>>

\* the potrace runs have ended with successful_conversions outlines: with
\* none, False is returned; else the FontForge script is written and
\* fontforge -script is started with timeout=300
PotraceReturns ==
    /\ step = "potrace"
    /\ \E successful_conversions \in 0..Cardinality(DOMAIN char_dir) :
          IF successful_conversions = 0
          THEN /\ stages' = Finished(stages, "none")
               /\ result' = "false"
               /\ step' = "done"
               /\ waiting' = NoTool
          ELSE /\ stages' = Ran(Ran(Finished(stages, "converted"), "script", "ok"),
                                "fontforge", "running")
               /\ step' = "fontforge"
               /\ waiting' = [tool |-> "fontforge -script", limit |-> FontforgeTimeout]
               /\ result' = result
    /\ UNCHANGED <<ttf, config_file, cliWrapperVars>>
    /\ UNCHANGED <<rasterizer, resolutions, wrapperVars, consumerVars>>
    /\ UNCHANGED <<gen, config, character_overrides, pc, characters, char_properties,
                   template, png, image, extracted, char_dir>>

\* fontforge -script has ended, was stopped by the timeout, or could not be
\* run; exists: whether font_name.ttf is there afterwards
FontforgeReturns ==
    /\ step = "fontforge"
    /\ \E outcome \in {"exit0", "nonzero", "timeout", "error"}, exists \in BOOLEAN :
          /\ stages' = Finished(stages, outcome)
          /\ ttf' = exists
          /\ result' = FontforgeVerdict(outcome, exists)
    /\ step' = "done"
    /\ waiting' = NoTool
    /\ UNCHANGED <<config_file, cliWrapperVars>>
    /\ UNCHANGED <<rasterizer, resolutions, wrapperVars, consumerVars>>
    /\ UNCHANGED <<gen, config, character_overrides, pc, characters, char_properties,
                   template, png, image, extracted, char_dir>>

InitPipeline ==
    /\ gen = "cli"
    /\ \E n \in 1..MaxChars : config = RunConfig("cli", n)
    /\ character_overrides = EmptyDict
    /\ rasterizer = TRUE
    /\ InitRest

NextPipeline ==
    \/ CliInit
    \/ GenerateFontWithPotrace
    \/ FontforgeCheckReturns
    \/ PotraceReturns
    \/ FontforgeReturns

SpecPipeline == InitPipeline /\ [][NextPipeline]_vars

\* what the scheduling guarantees: the program's own statements are executed,
\* and the FontForge run ends after 300 seconds at the latest; nothing makes
\* fontforge --version or potrace end, which are waited for without a timeout
SpecPipelineFair ==
    /\ SpecPipeline
    /\ WF_vars(CliInit)
    /\ WF_vars(GenerateFontWithPotrace)
    /\ WF_vars(FontforgeReturns)

(***************************************************************************)
(* CLIWrapper (web_app/core/cli_wrapper.py): the wrapper object holds the   *)
(* configuration it loaded when it was constructed, runs the CLI in the    *)
(* CLI directory and reads the outlines the CLI wrote.                     *)
(***************************************************************************)
\* the directory that is current when _run_cli_command returns, with the
\* timeout branch changing back nowhere
RestoredDirButTimeout(frame, outcome) ==
    IF outcome = "timeout" THEN CliDir ELSE frame.original_dir

\* the directory that is current when _run_cli_command returns: the normal
\* path and both except branches call os.chdir(original_dir)
RestoredDir(frame, outcome) == frame.original_dir

\* "success": result.returncode == 0; the except branches return success False
CommandResult(outcome) == IF outcome = "exit0" THEN "success" ELSE "failure"

\* CLIWrapper.__init__: self.config = self._load_config()
WrapperInit ==
    /\ gen = "wrapper"
    /\ pc = "start"
    /\ wrapper_config' = config_file
    /\ pc' = "ready"
    /\ result' = "ok"
    /\ UNCHANGED <<cwd, config_file, pipelineVars>>
    /\ UNCHANGED <<rasterizer, resolutions, wrapperVars, consumerVars>>
    /\ UNCHANGED <<gen, config, character_overrides, characters, char_properties,
                   template, png, image, extracted, char_dir>>

\* _run_cli_command up to subprocess.run: the current directory is kept in
\* original_dir and the CLI directory is entered; when that raises, the
\* except branch changes back and returns the failure
RunCliCommand ==
    /\ gen = "wrapper"
    /\ pc = "ready"
    /\ step = "idle"
    /\ \E timeout \in {120, FontforgeTimeout}, entered \in BOOLEAN :
          LET frame == [tool |-> "fontgen.py", limit |-> timeout, original_dir |-> cwd]
          IN  IF entered
              THEN /\ cwd' = CliDir
                   /\ step' = "cli"
                   /\ waiting' = frame
                   /\ stages' = Ran(<<>>, "cli", "running")
                   /\ result' = result
              ELSE /\ cwd' = RestoredDir(frame, "error")
                   /\ step' = "idle"
                   /\ waiting' = NoTool
                   /\ stages' = Ran(<<>>, "chdir", "error")
                   /\ result' = CommandResult("error")
    /\ UNCHANGED <<ttf, config_file, wrapper_config>>
    /\ UNCHANGED <<rasterizer, resolutions, wrapperVars, consumerVars>>
    /\ UNCHANGED <<gen, config, character_overrides, pc, characters, char_properties,
                   template, png, image, extracted, char_dir>>

\* subprocess.run has ended: with an exit code, by the timeout, or by another
\* exception
RunCliCommandReturns ==
    /\ step = "cli"
    /\ \E outcome \in {"exit0", "nonzero", "timeout", "error"} :
          /\ cwd' = RestoredDir(waiting, outcome)
          /\ stages' = Finished(stages, outcome)
          /\ result' = CommandResult(outcome)
    /\ step' = "idle"
    /\ waiting' = NoTool
    /\ UNCHANGED <<ttf, config_file, wrapper_config>>
    /\ UNCHANGED <<rasterizer, resolutions, wrapperVars, consumerVars>>
    /\ UNCHANGED <<gen, config, character_overrides, pc, characters, char_properties,
                   template, png, image, extracted, char_dir>>

\* the configuration _update_cli_config writes to config.json: the sets and
\* the glyph settings under font_generation are updated by the same
\* statements as in FontGenerator.update_config; a dict that is missing is
\* replaced by a new one that is not saved
update_cli_config(cfg, settings) ==
    IF ~Has(cfg, "font_generation") THEN cfg
    ELSE LET withSets ==
                 IF Has(cfg.font_generation, "character_sets")
                 THEN [cfg EXCEPT !.font_generation.character_sets = UpdatedSets(@, settings)]
                 ELSE cfg
         IN  IF Has(cfg.font_generation, "glyph_settings")
             THEN [withSets EXCEPT !.font_generation.glyph_settings =
                                       UpdatedGlyphSettings(@, settings)]
             ELSE withSets

\* CLIWrapper._update_cli_config(settings): config.json is loaded, updated
\* and written; self.config is not assigned
UpdateCliConfig ==
    /\ gen = "wrapper"
    /\ pc = "ready"
    /\ step = "idle"
    /\ \E settings \in Settings : config_file' = update_cli_config(config_file, settings)
    /\ UNCHANGED <<result, cwd, wrapper_config, pipelineVars>>
    /\ UNCHANGED <<rasterizer, resolutions, wrapperVars, consumerVars>>
    /\ UNCHANGED <<gen, config, character_overrides, pc, characters, char_properties,
                   template, png, image, extracted, char_dir>>

\* the scale of the first set whose characters hold char, 3.0 without one;
\* char is a string
ScaleIn(sets, char) ==
    LET listing == {s \in 1..Len(sets) :
                       \E j \in 1..Len(Get(sets[s].data, "characters", <<>>)) :
                           <<sets[s].data.characters[j]>> = char}
    IN  IF listing = {} THEN 30
        ELSE Get(sets[CHOOSE s \in listing : \A t \in listing : s <= t].data,
                 "scale_factor", 30)

\* CLIWrapper._get_character_scale: reads self.config
get_character_scale(cfg, char) ==
    ScaleIn(Get(Get(cfg, "font_generation", EmptyDict), "character_sets", <<>>), char)

\* the characters the CLI builds its list from, for a configuration file
CliCharacters(cfg) ==
    LET order == LoopOrder(CliCharacterSets(cfg))
    IN  {order[k].char : k \in 1..Len(order)}

\* CLIWrapper._build_character_map on the SVG directory of the CLI: the CLI
\* saves the crop of a character as f"{ord(char):04d}.png" and
\* preprocess_for_potrace and potrace_to_svg keep the stem
BuildCharacterMap ==
    /\ gen = "wrapper"
    /\ pc = "ready"
    /\ step = "idle"
    /\ character_map' =
          {[char_name |-> CliCropName(c),
            character |-> filename_to_char(CliCropName(c)),
            scale_factor |-> get_character_scale(wrapper_config,
                                                 filename_to_char(CliCropName(c)))] :
              c \in CliCharacters(config_file)}
    /\ UNCHANGED <<result, glyphs, cwd, wrapper_config, config_file, pipelineVars>>
    /\ UNCHANGED <<rasterizer, resolutions, wrapperVars>>
    /\ UNCHANGED <<gen, config, character_overrides, pc, characters, char_properties,
                   template, png, image, extracted, char_dir>>

\* config.json of the CLI, with or without glyph settings
WrapperConfigs ==
    {IF with_glyphs
     THEN [cfg EXCEPT !.font_generation = @ @@ [glyph_settings |-> DefaultGlyphSettings]]
     ELSE cfg :
        cfg \in {CliConfig(ServerSets(second), DefaultTemplateSettings) :
                    second \in {"lowercase", "accented"}},
        with_glyphs \in BOOLEAN}

InitWrapper ==
    /\ gen = "wrapper"
    /\ config \in WrapperConfigs
    /\ character_overrides = EmptyDict
    /\ rasterizer = TRUE
    /\ InitRest

NextWrapper ==
    \/ WrapperInit
    \/ RunCliCommand
    \/ RunCliCommandReturns
    \/ UpdateCliConfig
    \/ BuildCharacterMap

SpecWrapper == InitWrapper /\ [][NextWrapper]_vars

(***************************************************************************)
(* Vocabulary of the properties.                                           *)
(***************************************************************************)
Abs(v) == IF v < 0 THEN -v ELSE v

\* two boxes share a pixel
Overlap(a, b) ==
    /\ a.x < b.x + b.width
    /\ b.x < a.x + a.width
    /\ a.y < b.y + b.height
    /\ b.y < a.y + a.height

\* box b lies inside a w by h raster
Inside(b, w, h) ==
    /\ 0 <= b.x
    /\ b.x + b.width <= w
    /\ 0 <= b.y
    /\ b.y + b.height <= h

Rendered == template # NoFile

Extracted == extracted # <<>>

\* the grid parameters of the running generator, in the words of the layout
GridCols == IF gen = "cli" THEN config.font_generation.template_settings.grid_cols ELSE WebCols

GridCell ==
    IF gen = "cli" THEN config.font_generation.template_settings.template_size
    ELSE WebExtractTemplateConfig(config).box_size

GridMargin ==
    IF gen = "cli" THEN config.font_generation.template_settings.margin
    ELSE WebExtractTemplateConfig(config).margin

GridSpacing ==
    IF gen = "cli" THEN config.font_generation.template_settings.margin
    ELSE WebExtractTemplateConfig(config).box_spacing

GridHeader == IF gen = "cli" THEN CliHeader ELSE 0

\* the cell of 0-based index i as the layout of the specification defines it
CellRect(i) ==
    [x |-> GridMargin + (i % GridCols) * (GridCell + GridSpacing),
     y |-> GridMargin + GridHeader + (i \div GridCols) * (GridCell + GridSpacing),
     width |-> GridCell, height |-> GridCell]

CanvasWidth == 2 * GridMargin + GridCols * GridCell + (GridCols - 1) * GridSpacing

\* C1: the boxes of a rendered template are pairwise disjoint and lie inside
\* the canvas, for the command line and for the web generator.
C1_CellsDisjointInCanvas ==
    Rendered =>
        /\ \A j, k \in 1..Len(template.boxes) :
              j # k => ~Overlap(template.boxes[j], template.boxes[k])
        /\ \A k \in 1..Len(template.boxes) :
              Inside(template.boxes[k], template.width, template.height)

C1_Witness ==
    /\ Rendered
    /\ template.rows >= 2
    /\ GridCols >= 2
    /\ GridMargin = 0
    /\ Len(template.boxes) > GridCols

\* C2: at scale 1 the box cropped for every index is the box drawn for it
\* (the command line extraction never scales; the web extraction is at scale
\* 1 when the image is as wide as the canvas).
C2_ExtractMatchesTemplate ==
    (Rendered /\ Extracted /\ (gen = "cli" \/ image.width = template.width)) =>
        /\ Len(extracted) = Len(template.boxes)
        /\ \A k \in 1..Len(extracted) : extracted[k].box = template.boxes[k]

C2_Witness ==
    /\ Rendered
    /\ Extracted
    /\ gen = "web"
    /\ image.width = template.width
    /\ Len(extracted) > WebCols
    /\ extracted[Len(extracted)].box = template.boxes[Len(extracted)]

\* box b with every coordinate multiplied by s
Times(b, s) == [x |-> b.x * s, y |-> b.y * s, width |-> b.width * s, height |-> b.height * s]

\* the factor by which svg_to_png enlarges the template
RasterScale == IF gen = "cli" THEN 1 ELSE WebPngScale

\* C3 as claimed: extracting from the renderer's own raster resolves scale 1
\* on both axes and every crop is the cell of its character.
C3_RoundTripScaleOne ==
    (Rendered /\ Extracted /\ image.kind = "rendered") =>
        /\ image.width = template.width
        /\ image.height = template.height
        /\ \A k \in 1..Len(extracted) : extracted[k].box = template.boxes[k]

\* C3 as amended: extracting from the renderer's own raster resolves the
\* renderer's raster scale (1 for the command line, 4 for the web generator)
\* on both axes and every crop is the cell of its character times that scale.
C3_RoundTripRasterScale ==
    (Rendered /\ Extracted /\ image.kind = "rendered") =>
        /\ image.width = RasterScale * template.width
        /\ image.height = RasterScale * template.height
        /\ Len(extracted) = Len(template.boxes)
        /\ \A k \in 1..Len(extracted) :
              extracted[k].box = Times(template.boxes[k], RasterScale)

C3_Witness ==
    /\ Rendered
    /\ Extracted
    /\ image.kind = "rendered"
    /\ gen = "web"
    /\ Len(extracted) > WebCols
    /\ extracted[Len(extracted)].box.width = WebPngScale * GridCell

\* twice the distance, times the canvas width, between the centre of crop b and
\* the centre of cell c mapped through image width / canvas width, on one axis
CentreGapX(b, c) == Abs(CanvasWidth * (2 * b.x + b.width) - (2 * c.x + c.width) * image.width)

CentreGapY(b, c) == Abs(CanvasWidth * (2 * b.y + b.height) - (2 * c.y + c.height) * image.width)

\* C4 as claimed: the centre of every crop of the web extraction is within
\* one pixel, on each axis, of the scaled centre of its cell.
C4_CentreWithinOnePixel ==
    (gen = "web" /\ Extracted) =>
        \A k \in 1..Len(extracted) :
            /\ CentreGapX(extracted[k].box, CellRect(k - 1)) <= 2 * CanvasWidth
            /\ CentreGapY(extracted[k].box, CellRect(k - 1)) <= 2 * CanvasWidth

\* C4 as amended: the centre of every crop of the web extraction is within
\* one and a half pixels, on each axis, of the scaled centre of its cell.
C4_CentreWithinOneAndAHalf ==
    (gen = "web" /\ Extracted) =>
        \A k \in 1..Len(extracted) :
            /\ CentreGapX(extracted[k].box, CellRect(k - 1)) <= 3 * CanvasWidth
            /\ CentreGapY(extracted[k].box, CellRect(k - 1)) <= 3 * CanvasWidth

C4_Witness ==
    /\ gen = "web"
    /\ Extracted
    /\ image.kind = "user"
    /\ image.width < CanvasWidth
    /\ \E k \in 1..Len(extracted) :
          CentreGapX(extracted[k].box, CellRect(k - 1)) > 2 * CanvasWidth

\* C5: from an image twice the canvas in both dimensions every crop is twice
\* the cell size wide and high, within one pixel.
C5_DoubleImageDoubleCrop ==
    (Rendered /\ Extracted /\ image.kind = "user"
        /\ image.width = 2 * template.width /\ image.height = 2 * template.height) =>
        \A k \in 1..Len(extracted) :
            /\ Abs(extracted[k].box.width - 2 * template.boxes[k].width) <= 1
            /\ Abs(extracted[k].box.height - 2 * template.boxes[k].height) <= 1

\* the layout of the concrete scenario: 13 columns, cell 100, margin and
\* spacing 20, header 50, 26 characters
C6_Scenario ==
    /\ Rendered
    /\ gen = "cli"
    /\ config.font_generation.template_settings
           = [template_size |-> 100, grid_cols |-> 13, margin |-> 20]
    /\ Len(characters) = 26

\* C6 as claimed: the scenario has 2 rows, canvas width 1780 and height 290.
C6_ScenarioAsClaimed ==
    C6_Scenario => (template.rows = 2 /\ template.width = 1780 /\ template.height = 290)

\* C6 as amended: the scenario has 2 rows, canvas width 1580 and height 310.
C6_ScenarioCanvas ==
    C6_Scenario => (template.rows = 2 /\ template.width = 1580 /\ template.height = 310)

C6_Witness == C6_Scenario /\ Len(template.boxes) = 26

\* C7: rows = ceil(n / columns), width = 2*margin + columns*cell +
\* (columns-1)*spacing, height = 2*margin + header + rows*cell + (rows-1)*spacing.
C7_CanvasDimensions ==
    Rendered =>
        LET n == Len(template.boxes)
        IN  /\ template.rows * GridCols >= n
            /\ (template.rows - 1) * GridCols < n
            /\ template.width = 2 * GridMargin + GridCols * GridCell + (GridCols - 1) * GridSpacing
            /\ template.height = 2 * GridMargin + GridHeader + template.rows * GridCell
                                 + (template.rows - 1) * GridSpacing

C7_Witness ==
    /\ Rendered
    /\ gen = "cli"
    /\ template.rows = 4
    /\ Len(template.boxes) = 10
    /\ GridMargin > 0

\* C8: a character whose box lies partly or fully outside the image is left
\* out of the crops an extraction saves (with 10 characters and one such box,
\* 9 crops are saved).
C8_OutOfBoundsOmitted ==
    Extracted =>
        \A k \in 1..Len(extracted) : Inside(extracted[k].box, image.width, image.height)

(***************************************************************************)
(* Property resolution.                                                    *)
(***************************************************************************)
ConfiguredSets == IF gen = "cli" THEN CliCharacterSets(config) ELSE WebCharacterSets(config)

Listed(set, c) == \E j \in 1..Len(set.data.characters) : set.data.characters[j] = c

ListedChars == {c \in Chars : \E s \in 1..Len(ConfiguredSets) : Listed(ConfiguredSets[s], c)}

\* the set processed last among those that list c
LastSet(c) ==
    LET idx == {s \in 1..Len(ConfiguredSets) : Listed(ConfiguredSets[s], c)}
    IN  ConfiguredSets[CHOOSE s \in idx : \A t \in idx : t <= s]

\* external override, else the set's individual entry, else the set's default
Precedence(c, key, individual) ==
    LET d == LastSet(c).data
    IN  IF c \in DOMAIN character_overrides /\ key \in DOMAIN character_overrides[c]
        THEN character_overrides[c][key]
        ELSE IF individual \in DOMAIN d /\ c \in DOMAIN d[individual]
        THEN d[individual][c]
        ELSE d[key]

\* C9: the resolved scale factor is the external override, else the set's
\* individual_scaling entry, else the set's scale_factor; the baseline offset
\* likewise with individual_positioning and baseline_offset.
C9_OverridePrecedence ==
    pc = "ready" =>
        \A c \in ListedChars :
            /\ c \in DOMAIN char_properties
            /\ char_properties[c].scale_factor = Precedence(c, "scale_factor", "individual_scaling")
            /\ char_properties[c].baseline_offset
                   = Precedence(c, "baseline_offset", "individual_positioning")

\* C9 for the command line resolver alone.
C9_CliOverridePrecedence == gen = "cli" => C9_OverridePrecedence

CharacterSequence == IF gen = "cli" THEN characters ELSE get_all_characters(config)

\* C11: the character sequence holds each identifier at most once, so there
\* are as many grid cells as resolved property records, also when an
\* identifier is listed in two sets.
C11_EachIdentifierOnce ==
    pc = "ready" =>
        /\ \A j, k \in 1..Len(CharacterSequence) :
              j # k => CharacterSequence[j] # CharacterSequence[k]
        /\ Len(CharacterSequence) = Cardinality(DOMAIN char_properties)

RecordKeys(c) == DOMAIN char_properties[c]

SomeSetOmits(P(_)) ==
    \E s \in 1..Len(ConfiguredSets) :
        /\ P(ConfiguredSets[s])
        /\ \/ "scale_factor" \notin DOMAIN ConfiguredSets[s].data
           \/ "baseline_offset" \notin DOMAIN ConfiguredSets[s].data

AnySet(set) == TRUE

ListsACharacter(set) == set.data.characters # <<>>

C15_FilenameRoundTrip == decoded # <<>> => decoded = identifier

C15_Witness ==
    /\ identifier = <<37>>
    /\ filename = CharPrefix \o <<51, 55>>
    /\ decoded = <<37>>

\* every crop's file is listed by the consumer `found` under the identifier
\* the crop was written for, and under no other
DecodedBack(found) ==
    \A k \in 1..Len(extracted) :
        /\ [char_name |-> extracted[k].name, character |-> <<extracted[k].char>>] \in found
        /\ \A p \in found :
              p.char_name = extracted[k].name => p.character = <<extracted[k].char>>

\* C16: two different identifiers never get the same file name, and
\* get_actual_character, the char_map of the web FontForge script and the
\* code-point lookup of the command line script give back, for every saved
\* name, the identifier it was written for.
C16_NamesReversible ==
    /\ \A j, k \in 1..Len(extracted) :
          extracted[j].char # extracted[k].char => extracted[j].name # extracted[k].name
    /\ character_map # {} => DecodedBack(character_map)
    /\ glyphs # {} => DecodedBack(glyphs)

C16_Witness ==
    /\ gen = "web"
    /\ Len(extracted) = 2
    /\ extracted[1].char = 92
    /\ extracted[2].char = 42
    /\ [char_name |-> WebCropName(92), character |-> <<92>>] \in character_map
    /\ [char_name |-> <<42>>, character |-> <<42>>] \in glyphs

\* < > & " '
MarkupChars == {60, 62, 38, 34, 39}

\* the XML entities that stand for a markup character
EntitiesOf(char) ==
    IF char = 60 THEN {<<38, 108, 116, 59>>, <<38, 35, 54, 48, 59>>, <<38, 35, 120, 51, 99, 59>>, <<38, 35, 120, 51, 67, 59>>}    \* &lt; &#60; &#x3c; &#x3C;
    ELSE IF char = 62 THEN {<<38, 103, 116, 59>>, <<38, 35, 54, 50, 59>>, <<38, 35, 120, 51, 101, 59>>, <<38, 35, 120, 51, 69, 59>>}    \* &gt; &#62; &#x3e; &#x3E;
    ELSE IF char = 38 THEN {<<38, 97, 109, 112, 59>>, <<38, 35, 51, 56, 59>>, <<38, 35, 120, 50, 54, 59>>}    \* &amp; &#38; &#x26;
    ELSE IF char = 34 THEN {<<38, 113, 117, 111, 116, 59>>, <<38, 35, 51, 52, 59>>, <<38, 35, 120, 50, 50, 59>>}    \* &quot; &#34; &#x22;
    ELSE IF char = 39 THEN {<<38, 97, 112, 111, 115, 59>>, <<38, 35, 51, 57, 59>>, <<38, 35, 120, 50, 55, 59>>}    \* &apos; &#39; &#x27;
    ELSE {}

\* C20: a label holds an entity in place of each of < > & " ' (and so none of
\* them raw, the ampersand that opens the entity apart) and every other
\* character unchanged.
C20_LabelsEscaped ==
    Rendered =>
        \A k \in 1..Len(template.labels) :
            LET c == CharacterSequence[k]
                text == template.labels[k].text
            IN  IF c \in MarkupChars
                THEN /\ text \in EntitiesOf(c)
                     /\ \A j \in 2..Len(text) : text[j] \notin MarkupChars
                ELSE text = <<c>>

C20_Witness ==
    /\ Rendered
    /\ gen = "cli"
    /\ CharacterSequence = <<39, 46>>
    /\ template.labels[1].text = <<38, 35, 120, 50, 55, 59>>
    /\ template.labels[2].text = <<46>>

\* parameters the layout is to reject
InvalidLayout ==
    \/ GridCols <= 0
    \/ GridCell <= 0
    \/ Len(CharacterSequence) <= 0
    \/ GridMargin < 0
    \/ GridSpacing < 0

\* C17: with columns <= 0, cell size <= 0, no character, or a negative margin
\* or spacing, the layout fails before any output is written: no template
\* file ever exists.
C17_InvalidParametersRejected == (pc = "ready" /\ InvalidLayout) => template = NoFile

\* C18: when a PNG template is asked for and cairosvg is not available, the
\* SVG template written for it exists after the operation, and the operation
\* does not end in an error.
C18_VectorKeptWithoutRasterizer ==
    [][((CliSvgToPng \/ CliGenerateTemplatePng \/ WebSvgToPng) /\ ~rasterizer) =>
          (template' # NoFile /\ result' # "raised")]_vars

\* C19: the template holds one box and one label per entry of the character
\* sequence, in its order; box i is the cell of index i, and the label of a
\* character that needs no escaping is the character itself.
C19_OneBoxAndLabelPerCharacter ==
    Rendered =>
        /\ Len(template.boxes) = Len(CharacterSequence)
        /\ Len(template.labels) = Len(CharacterSequence)
        /\ \A k \in 1..Len(CharacterSequence) :
              /\ template.boxes[k] = CellRect(k - 1)
              /\ CharacterSequence[k] \notin MarkupChars =>
                    template.labels[k].text = <<CharacterSequence[k]>>

C19_Witness ==
    /\ Rendered
    /\ gen = "web"
    /\ Len(CharacterSequence) = 14
    /\ template.boxes[14] = CellRect(13)
    /\ template.boxes[14].y > template.boxes[13].y
    /\ template.labels[14].text = <<CharacterSequence[14]>>

\* the configuration and the properties font_gen holds for a request are those
\* of the configuration file
FromConfigFile ==
    /\ config = config_file
    /\ char_properties = build_char_properties(config_file)

\* C21: a request finds the configuration and the character properties of the
\* configuration file, whichever requests ran before it
C21_NoStateBetweenRequests == pc = "ready" => FromConfigFile

\* C23: a /api/generate-template request, successful or failed, leaves
\* font_gen.config and font_gen.char_properties as they were before it
C23_ConfigurationRestored ==
    [][WebApiGenerateTemplate
          => (config' = config /\ char_properties' = char_properties)]_vars

\* the characters of the crops of an extraction, in extraction order
ExtractedCharacters(crops) == [k \in 1..Len(crops) |-> crops[k].char]

\* C24: an extraction that follows a template request takes the crop of every
\* character from the cell the template rendered it in: the extraction's
\* character sequence is the sequence the template was rendered from
C24_CropFromRenderedCell ==
    [][(WebExtract /\ template # NoFile /\ result' = "ok")
          => ExtractedCharacters(extracted') = template.characters]_vars

\* the glyph settings in force: at the top level or under font_generation
GlyphSettingsOf(cfg) ==
    IF Has(cfg, "glyph_settings") /\ cfg.glyph_settings # EmptyDict THEN cfg.glyph_settings
    ELSE IF Has(cfg, "font_generation")
    THEN Get(cfg.font_generation, "glyph_settings", EmptyDict)
    ELSE EmptyDict

Without(d, keys) == [k \in DOMAIN d \ keys |-> d[k]]

\* the configuration without its character sets and glyph settings
OtherValues(cfg) ==
    LET top == Without(cfg, {"character_sets", "glyph_settings"})
    IN  IF Has(top, "font_generation")
        THEN [top EXCEPT !.font_generation = Without(@, {"character_sets", "glyph_settings"})]
        ELSE top

\* new_settings explains the step from the sets before to the sets after:
\* the named sets whose key is present carry the new scale, nothing else differs
OnlyScalesSet(before, after, new_settings) ==
    /\ Len(after) = Len(before)
    /\ \A s \in 1..Len(before) :
          /\ after[s].name = before[s].name
          /\ Without(after[s].data, {"scale_factor"}) = Without(before[s].data, {"scale_factor"})
          /\ IF ScaleKey(before[s].name) \in DOMAIN new_settings
             THEN after[s].data.scale_factor = new_settings[ScaleKey(before[s].name)]
             ELSE after[s].data = before[s].data

\* new_settings explains the step from the glyph settings before to those
\* after: the three settings whose key is present carry the new value
OnlyGlyphSettingsSet(before, after, new_settings) ==
    /\ DOMAIN before \subseteq DOMAIN after
    /\ DOMAIN after \subseteq DOMAIN before \cup (GlyphKeys \cap DOMAIN new_settings)
    /\ \A k \in DOMAIN after :
          IF k \in GlyphKeys \cap DOMAIN new_settings
          THEN after[k] = new_settings[k]
          ELSE after[k] = before[k]

\* C26: update_config(new_settings) sets the scale_factor of the sets
\* uppercase, lowercase, numbers, symbols that exist and whose key is present,
\* and the glyph settings whose key is present; every other value of the
\* configuration is unchanged, and when the call returns char_properties is
\* the mapping rebuilt from the updated configuration
C26_UpdateConfigChangesOnlyNamedSettings ==
    [][WebApiConfig =>
          /\ \E new_settings \in Settings :
                /\ OnlyScalesSet(WebCharacterSets(config), WebCharacterSets(config'),
                                 new_settings)
                /\ IF GlyphSettingsOf(config) = EmptyDict
                   THEN GlyphSettingsOf(config') = EmptyDict
                   ELSE OnlyGlyphSettingsSet(GlyphSettingsOf(config),
                                             GlyphSettingsOf(config'), new_settings)
                /\ OtherValues(config') = OtherValues(config)
          /\ (result' = "ok" => char_properties' = build_char_properties(config'))]_vars

\* update_config has set the scale of uppercase and the space width, and left
\* the set it does not know and the bearings alone
C26_Witness ==
    /\ pc = "ready"
    /\ result = "ok"
    /\ Len(WebCharacterSets(config)) = 2
    /\ WebCharacterSets(config)[1].name = "uppercase"
    /\ WebCharacterSets(config)[1].data.scale_factor = SettingValue("uppercase_scale")
    /\ WebCharacterSets(config)[2].name = "accented"
    /\ WebCharacterSets(config)[2].data.scale_factor = DefaultScale("accented")
    /\ Has(GlyphSettingsOf(config), "space_width")
    /\ GlyphSettingsOf(config).space_width = SettingValue("space_width")
    /\ GlyphSettingsOf(config).left_bearing = DefaultGlyphSettings.left_bearing
    /\ 65 \in DOMAIN char_properties
    /\ char_properties[65].scale_factor = SettingValue("uppercase_scale")

\* the file names of the crops of an extraction
CropNames(crops) == {crops[k].name : k \in 1..Len(crops)}

\* C25: after any sequence of extraction runs the character directory holds
\* exactly the crop files of the character list of the most recent run
C25_DirectoryHoldsLastRunOnly ==
    extracted # <<>> => DOMAIN char_dir = CropNames(extracted)

\* C22: no operation blocks indefinitely, also when an external tool never
\* exits: a call of generate_font_with_potrace that has started eventually
\* returns a result
C22_EveryCallReturns == (step \notin {"idle", "done"}) ~> (step = "done")

\* the names of the stages entered so far
StagesRun == [k \in 1..Len(stages) |-> stages[k].stage]

FileScale(char) == get_character_scale(config_file, <<char>>)

\* C29: the wrapper's view of the configuration agrees with config.json:
\* _get_character_scale of a character returns the scale written to the file
C29_WrapperSeesWrittenScale ==
    (gen = "wrapper" /\ pc = "ready") =>
        \A c \in CliCharacters(config_file) :
            get_character_scale(wrapper_config, <<c>>) = FileScale(c)

\* C30: _filename_to_char returns c for the stem under which the CLI saves
\* c, so the character map built from the CLI's outlines has, for every
\* character of the CLI's list, the entry of its file keyed by the character
C30_MapKeyedByCharacter ==
    (gen = "wrapper" /\ character_map # {}) =>
        \A m \in character_map :
            \E c \in CliCharacters(config_file) :
                m.char_name = CliCropName(c) /\ m.character = <<c>>

====
